---- MODULE Spec2Model ----
(***************************************************************************)
(* The CSV parsing pipeline of server/src/services/parser.js.              *)
(*                                                                         *)
(* A JavaScript string is a sequence of one-character strings.  A value    *)
(* that may be null, a number or a string is a record tagged by "type".    *)
(* The texts are quote-free, so PapaParse runs in its fast mode: it splits *)
(* the joined row lines on the newline and each line on the delimiter.     *)
(***************************************************************************)
EXTENDS Integers, Sequences, FiniteSets, TLC

VARIABLES
    pc,                  \* "start" before parseCSV runs, "done" after
    text,                \* fileBuffer.toString('utf-8')
    overrides,           \* the overrides argument of parseCSV
    commentHeaderLine,   \* preprocessLines: last comment before the data
    dataLines,           \* preprocessLines: the non-comment lines
    commentLinesSkipped, \* preprocessLines: number of comment lines
    delimiter,           \* parseCSV step 2
    decimalSeparator,    \* parseCSV step 3
    commentIsHeader,     \* parseCSV step 4
    hasHeaderDetected,   \* parseCSV step 4
    headerNames,         \* parseCSV step 4
    rowLines,            \* parseCSV step 4
    tokenized,           \* parseResult.data of step 5
    rows,                \* the rows after steps 5 to 7
    columns,             \* inferColumnTypes(headerNames, rows)
    warnings,            \* the warnings array
    error,               \* the ParseError thrown, or NoError
    lastIndex,           \* inferTypes.js: lastIndex of each of DATE_PATTERNS
    history,             \* the inputs and outcomes of the earlier calls
    file,                \* the argument of validateFile: req.file
    validation,          \* the object validateFile returns
    appFile,             \* App state: file
    parsingSettings,     \* App state: parsingSettings
    isUploading,         \* App state: isUploading
    parseResult,         \* App state: parseResult
    lastMetadata,        \* App state: lastMetadata
    appError,            \* App state: error
    selectedXColumn,     \* App state: selectedXColumn
    selectedYColumns,    \* App state: selectedYColumns
    columnNames,         \* App state: columnNames
    overriddenColumns,   \* App state: overriddenColumns
    toast,               \* App state: toast
    fetches,             \* the samples whose fetch has not answered yet
    requests,            \* the uploads whose response has not arrived yet
    started,             \* every doUpload call so far, in the order of the calls
    totalRows,           \* ChartView: data.length of the data prop, 0 before it is mounted
    prevTotal,           \* ChartView ref: prevTotal.current
    rangeFrom,           \* ChartView state: rangeFrom
    rangeTo,             \* ChartView state: rangeTo
    fromInput,           \* ChartView state: fromInput
    toInput,             \* ChartView state: toInput
    rangeOpen,           \* ChartView state: rangeOpen
    drag,                \* RangeSlider state: drag
    focus                \* the range input that has the focus, "" for neither

vars == <<pc, text, overrides, commentHeaderLine, dataLines,
          commentLinesSkipped, delimiter, decimalSeparator, commentIsHeader,
          hasHeaderDetected, headerNames, rowLines, tokenized, rows, columns,
          warnings, error, lastIndex, history, file, validation,
          appFile, parsingSettings, isUploading, parseResult, lastMetadata,
          appError, selectedXColumn, selectedYColumns, columnNames,
          overriddenColumns, toast, fetches, requests, started,
          totalRows, prevTotal, rangeFrom, rangeTo, fromInput, toInput,
          rangeOpen, drag, focus>>

\* The state of the App component and of its requests.
clientVars == <<appFile, parsingSettings, isUploading, parseResult,
                lastMetadata, appError, selectedXColumn, selectedYColumns,
                columnNames, overriddenColumns, toast, fetches, requests,
                started>>

\* The state of the ChartView component and of its RangeSlider.
rangeVars == <<totalRows, prevTotal, rangeFrom, rangeTo, fromInput, toInput,
               rangeOpen, drag, focus>>

\* The variables of utils/validators.js.
validatorVars == <<file, validation>>

(***************************************************************************)
(* Bounds of the model.                                                    *)
(***************************************************************************)
MaxTextLen == 5

(***************************************************************************)
(* Characters.                                                             *)
(***************************************************************************)
TAB == "\t"
SEMICOLON == ";"
COMMA == ","
DOT == "."
HASH == "#"
LF == "\n"
CR == "\r"
SPACE == " "

Digits == <<"0", "1", "2", "3", "4", "5", "6", "7", "8", "9">>

IsDigit(ch) == \E i \in 1..10 : Digits[i] = ch

DigitValue(ch) == (CHOOSE i \in 1..10 : Digits[i] = ch) - 1

\* The white space that String.prototype.trim removes (ASCII part).
IsWhitespace(ch) == ch \in {SPACE, TAB, LF, CR}

(***************************************************************************)
(* String.prototype helpers.                                               *)
(***************************************************************************)
RECURSIVE trimStart(_)
trimStart(s) ==
    IF s # <<>> /\ IsWhitespace(Head(s)) THEN trimStart(Tail(s)) ELSE s

RECURSIVE trimEnd(_)
trimEnd(s) ==
    IF s # <<>> /\ IsWhitespace(s[Len(s)])
    THEN trimEnd(SubSeq(s, 1, Len(s) - 1))
    ELSE s

trim(s) == trimEnd(trimStart(s))

\* Index of the first element of s that is in the set chars, 0 when none.
IndexOfAny(s, chars) ==
    IF \E i \in 1..Len(s) : s[i] \in chars
    THEN CHOOSE i \in 1..Len(s) :
            /\ s[i] \in chars
            /\ \A j \in 1..(i - 1) : s[j] \notin chars
    ELSE 0

\* s.split(d) for a one-character separator d.
RECURSIVE split(_, _)
split(s, d) ==
    LET i == IndexOfAny(s, {d})
    IN  IF i = 0
        THEN <<s>>
        ELSE <<SubSeq(s, 1, i - 1)>> \o split(SubSeq(s, i + 1, Len(s)), d)

\* text.split(/\r\n|\n|\r/)
RECURSIVE splitLines(_)
splitLines(t) ==
    LET i == IndexOfAny(t, {LF, CR})
        n == IF t[i] = CR /\ i < Len(t) /\ t[i + 1] = LF THEN 2 ELSE 1
    IN  IF i = 0
        THEN <<t>>
        ELSE <<SubSeq(t, 1, i - 1)>> \o splitLines(SubSeq(t, i + n, Len(t)))

\* lines.join(sep)
RECURSIVE join(_, _)
join(lines, sep) ==
    IF lines = <<>> THEN <<>>
    ELSE IF Len(lines) = 1 THEN lines[1]
    ELSE lines[1] \o <<sep>> \o join(Tail(lines), sep)

\* s.replaceAll(from, to) for one-character strings.
replaceAll(s, from, to) ==
    [i \in 1..Len(s) |-> IF s[i] = from THEN to ELSE s[i]]

\* array.filter(p).length and array.filter(p) for a set of kept indices.
RECURSIVE FilterIdx(_, _, _)
FilterIdx(seq, keep, i) ==
    IF i > Len(seq) THEN <<>>
    ELSE (IF i \in keep THEN <<seq[i]>> ELSE <<>>) \o FilterIdx(seq, keep, i + 1)

\* The number of occurrences of ch in line.
CountChar(line, ch) == Cardinality({i \in 1..Len(line) : line[i] = ch})

Min(a, b) == IF a <= b THEN a ELSE b

(***************************************************************************)
(* JavaScript values: null, undefined, number, string.                     *)
(* A number is mant / 10^scale, with mant not a multiple of 10 unless      *)
(* scale = 0.  NaN is its own value.                                       *)
(***************************************************************************)
Null == [type |-> "null"]
Undefined == [type |-> "undefined"]
NaN == [type |-> "NaN"]
\* typeof Infinity and typeof NaN are 'number', isFinite of both is false;
\* the type "number" of the model is the finite numbers.
Infinity == [type |-> "Infinity"]
Str(s) == [type |-> "string", s |-> s]
RECURSIVE Num(_, _)
Num(mant, scale) ==
    IF scale > 0 /\ mant % 10 = 0
    THEN Num(mant \div 10, scale - 1)
    ELSE [type |-> "number", mant |-> mant, scale |-> scale]

RECURSIVE DigitsValue(_)
DigitsValue(s) ==
    IF s = <<>> THEN 0
    ELSE 10 * DigitsValue(SubSeq(s, 1, Len(s) - 1)) + DigitValue(s[Len(s)])

AllDigits(s) == \A i \in 1..Len(s) : IsDigit(s[i])

\* StrUnsignedDecimalLiteral without exponent: digits, digits. , digits.digits
\* or .digits
UnsignedDecimal(s) ==
    LET parts == split(s, DOT)
    IN  IF Len(parts) = 1
        THEN IF s # <<>> /\ AllDigits(s) THEN Num(DigitsValue(s), 0) ELSE NaN
        ELSE IF /\ Len(parts) = 2
                /\ AllDigits(parts[1]) /\ AllDigits(parts[2])
                /\ Len(parts[1]) + Len(parts[2]) > 0
        THEN Num(DigitsValue(parts[1] \o parts[2]), Len(parts[2]))
        ELSE NaN

\* Number(str): white space is trimmed, the empty string is 0, a signed
\* decimal literal is its value, anything else is NaN.  (Exponents, hex,
\* octal and binary literals and Infinity need letters e, x, o, b, I, which
\* no text of the model holds.)
Number(str) ==
    LET t == trim(str)
        signed == t # <<>> /\ Head(t) \in {"+", "-"}
        u == UnsignedDecimal(IF signed THEN Tail(t) ELSE t)
    IN  IF t = <<>> THEN Num(0, 0)
        ELSE IF u = NaN THEN NaN
        ELSE IF signed /\ Head(t) = "-" THEN Num(0 - u.mant, u.scale)
        ELSE u

isNaN(v) == v = NaN

(***************************************************************************)
(* 1. preprocessLines                                                      *)
(***************************************************************************)
startsWith(s, ch) == s # <<>> /\ Head(s) = ch

\* IsComment without the trimStart.
IsCommentMutant(line) == startsWith(line, HASH)

IsComment(line) == startsWith(trimStart(line), HASH)

\* NonBlankLines without the filter.
NonBlankLinesMutant(t) == splitLines(t)

\* text.split(/\r\n|\n|\r/).filter((l) => l.trim() !== '')
NonBlankLines(t) ==
    LET all == splitLines(t)
    IN  FilterIdx(all, {i \in 1..Len(all) : trim(all[i]) # <<>>}, 1)

\* preprocessLoop where every comment line overwrites commentHeaderLine.
RECURSIVE preprocessLoopMutant(_, _, _)
preprocessLoopMutant(lines, i, acc) ==
    IF i > Len(lines) THEN acc
    ELSE IF IsComment(lines[i])
    THEN preprocessLoopMutant(lines, i + 1,
            [acc EXCEPT !.commentLinesSkipped = @ + 1,
                        !.commentHeaderLine = Str(lines[i])])
    ELSE preprocessLoopMutant(lines, i + 1,
            [acc EXCEPT !.foundFirstDataLine = TRUE,
                        !.dataLines = Append(@, lines[i])])

\* for (const line of lines) { ... } from line i on.
RECURSIVE preprocessLoop(_, _, _)
preprocessLoop(lines, i, acc) ==
    IF i > Len(lines) THEN acc
    ELSE IF IsComment(lines[i])
    THEN preprocessLoop(lines, i + 1,
            [acc EXCEPT !.commentLinesSkipped = @ + 1,
                        !.commentHeaderLine =
                            IF ~acc.foundFirstDataLine THEN Str(lines[i]) ELSE @])
    ELSE preprocessLoop(lines, i + 1,
            [acc EXCEPT !.foundFirstDataLine = TRUE,
                        !.dataLines = Append(@, lines[i])])

preprocessLines(t) ==
    LET r == preprocessLoop(NonBlankLines(t), 1,
                [commentHeaderLine |-> Null, dataLines |-> <<>>,
                 commentLinesSkipped |-> 0, foundFirstDataLine |-> FALSE])
    IN  [commentHeaderLine |-> r.commentHeaderLine,
         dataLines |-> r.dataLines,
         commentLinesSkipped |-> r.commentLinesSkipped]

(***************************************************************************)
(* 2. autoDetectDelimiter                                                  *)
(***************************************************************************)
SampleSize == 5

\* candidates in the reverse priority order.
candidatesMutant == <<COMMA, SEMICOLON, TAB>>

candidates == <<TAB, SEMICOLON, COMMA>>

MinOf(S) == CHOOSE x \in S : \A y \in S : x <= y
MaxOf(S) == CHOOSE x \in S : \A y \in S : x >= y

\* results[k] of autoDetectDelimiter for candidates[k]
DelimiterResult(sampleLines, k) ==
    LET counts == {CountChar(sampleLines[i], candidates[k]) :
                        i \in 1..Len(sampleLines)}
        minCount == MinOf(counts)
        maxCount == MaxOf(counts)
    IN  [delim |-> candidates[k], minCount |-> minCount, maxCount |-> maxCount,
         isConsistent |-> (minCount = maxCount /\ minCount > 0)]

\* CompareVariance without the comparison of the minimum counts.
CompareVarianceMutant(a, b) ==
    LET varA == a.maxCount - a.minCount
        varB == b.maxCount - b.minCount
    IN  IF varA # varB THEN varA - varB ELSE 0

\* The comparator of withCounts.sort: negative when a sorts before b.
CompareVariance(a, b) ==
    LET varA == a.maxCount - a.minCount
        varB == b.maxCount - b.minCount
    IN  IF varA # varB THEN varA - varB ELSE b.minCount - a.minCount

\* SampleLinesOf that takes every line.
SampleLinesOfMutant(lines) == lines

\* dataLines.slice(0, Math.min(5, dataLines.length))
SampleLinesOf(lines) == SubSeq(lines, 1, Min(SampleSize, Len(lines)))

autoDetectDelimiter(lines) ==
    LET sampleLines == SampleLinesOf(lines)
        results == [k \in 1..Len(candidates) |-> DelimiterResult(sampleLines, k)]
        consistent == {k \in 1..Len(candidates) : results[k].isConsistent}
        withCounts == {k \in 1..Len(candidates) : results[k].minCount > 0}
        \* withCounts.sort(...)[0]: the sort is stable, so among equals the
        \* earlier candidate stays first.
        first == CHOOSE k \in withCounts : \A j \in withCounts :
                    \/ CompareVariance(results[k], results[j]) < 0
                    \/ CompareVariance(results[k], results[j]) = 0 /\ k <= j
    IN  IF Len(sampleLines) = 0 THEN COMMA
        ELSE IF consistent # {} THEN candidates[MinOf(consistent)]
        ELSE IF withCounts # {} THEN candidates[first]
        ELSE COMMA

(***************************************************************************)
(* 3. detectDecimalSeparator                                               *)
(***************************************************************************)
\* detectDecimalSeparator that tests for the comma delimiter instead.
detectDecimalSeparatorMutant(delim) == IF delim = COMMA THEN DOT ELSE COMMA

detectDecimalSeparator(delim) == IF delim = SEMICOLON THEN COMMA ELSE DOT

(***************************************************************************)
(* 4. detectHeader                                                         *)
(***************************************************************************)
isNumericCell(raw, decimalSep) ==
    LET trimmed == trim(raw)
        normalized == IF decimalSep = COMMA
                      THEN replaceAll(trimmed, COMMA, DOT)
                      ELSE trimmed
    IN  IF raw = <<>> \/ trim(raw) = <<>> THEN FALSE
        ELSE ~isNaN(Number(normalized)) /\ normalized # <<>>

\* line.split(delimiter).map((c) => c.trim())
TrimmedCells(line, delim) ==
    LET cells == split(line, delim)
    IN  [i \in 1..Len(cells) |-> trim(cells[i])]

NumericCount(cells, decimalSep) ==
    Cardinality({i \in 1..Len(cells) : isNumericCell(cells[i], decimalSep)})

RECURSIVE SumOver(_, _)
SumOver(f, n) == IF n = 0 THEN 0 ELSE f[n] + SumOver(f, n - 1)

\* detectHeader without its first line: no special case for a single line.
detectHeaderMutant(candidateLine, lines, delim, decimalSep) ==
    LET candidateCells == TrimmedCells(candidateLine, delim)
    IN  2 * NumericCount(candidateCells, decimalSep) < Len(candidateCells)

\* detectHeader with candidateRatio <= 0.5 in its first rule.
detectHeaderLenient(candidateLine, lines, delim, decimalSep) ==
    LET candidateCells == TrimmedCells(candidateLine, delim)
        candidateNumericCount == NumericCount(candidateCells, decimalSep)
        sampleSize == Min(SampleSize, Len(lines))
        totalDataCells ==
            SumOver([i \in 1..sampleSize |->
                        Len(TrimmedCells(lines[i], delim))], sampleSize)
        totalDataNumeric ==
            SumOver([i \in 1..sampleSize |->
                        NumericCount(TrimmedCells(lines[i], delim), decimalSep)],
                    sampleSize)
    IN  IF Len(lines) = 0 THEN TRUE
        ELSE IF /\ 2 * totalDataNumeric > totalDataCells
                /\ 2 * candidateNumericCount <= Len(candidateCells)
        THEN TRUE
        ELSE 2 * candidateNumericCount < Len(candidateCells)

\* detectHeader with candidateRatio > 0.5 in place of candidateRatio >= 0.5.
detectHeaderStrict(candidateLine, lines, delim, decimalSep) ==
    LET candidateCells == TrimmedCells(candidateLine, delim)
    IN  IF Len(lines) = 0 THEN TRUE
        ELSE 2 * NumericCount(candidateCells, decimalSep) <= Len(candidateCells)

\* The ratios n / d are compared with 0.5 as 2 * n against d; a ratio whose
\* denominator is 0 is 0 in the code.
detectHeader(candidateLine, lines, delim, decimalSep) ==
    LET candidateCells == TrimmedCells(candidateLine, delim)
        candidateNumericCount == NumericCount(candidateCells, decimalSep)
        sampleSize == Min(SampleSize, Len(lines))
        totalDataCells ==
            SumOver([i \in 1..sampleSize |->
                        Len(TrimmedCells(lines[i], delim))], sampleSize)
        totalDataNumeric ==
            SumOver([i \in 1..sampleSize |->
                        NumericCount(TrimmedCells(lines[i], delim), decimalSep)],
                    sampleSize)
        candidateLen == Len(candidateCells)
    IN  IF Len(lines) = 0 THEN TRUE
        ELSE IF /\ totalDataCells > 0 /\ 2 * totalDataNumeric > totalDataCells
                /\ (candidateLen = 0 \/ 2 * candidateNumericCount < candidateLen)
        THEN TRUE
        ELSE IF candidateLen > 0 /\ 2 * candidateNumericCount >= candidateLen
        THEN FALSE
        ELSE TRUE

(***************************************************************************)
(* inferTypes.js                                                           *)
(***************************************************************************)
DigitRun(s, lo, hi) == Len(s) >= lo /\ Len(s) <= hi /\ AllDigits(s)

\* \d{4}-\d{2}-\d{2}
IsIsoDate(s) ==
    LET p == split(s, "-")
    IN  Len(p) = 3 /\ DigitRun(p[1], 4, 4) /\ DigitRun(p[2], 2, 2)
                   /\ DigitRun(p[3], 2, 2)

\* \d{2}:\d{2}(:\d{2})?
IsClock(s) ==
    LET p == split(s, ":")
    IN  Len(p) \in {2, 3} /\ \A i \in 1..Len(p) : DigitRun(p[i], 2, 2)

\* (\.\d+)?(Z|[+-]\d{2}:?\d{2})? after the clock
IsFractionAndZone(s) ==
    LET noZ == IF s # <<>> /\ s[Len(s)] = "Z"
               THEN SubSeq(s, 1, Len(s) - 1) ELSE s
        signAt == IndexOfAny(s, {"+", "-"})
        zone == IF signAt = 0 THEN <<>> ELSE SubSeq(s, signAt + 1, Len(s))
        zoneOk == \/ DigitRun(zone, 4, 4)
                  \/ /\ Len(zone) = 5 /\ zone[3] = ":"
                     /\ DigitRun(SubSeq(zone, 1, 2) \o SubSeq(zone, 4, 5), 4, 4)
        frac == IF signAt = 0 THEN noZ ELSE SubSeq(s, 1, signAt - 1)
        fracOk == frac = <<>> \/ (Head(frac) = DOT /\ DigitRun(Tail(frac), 1, Len(frac)))
    IN  IF signAt = 0 THEN fracOk ELSE fracOk /\ zoneOk

\* DATE_PATTERNS[0]
MatchesIsoPattern(s) ==
    \/ IsIsoDate(s)
    \/ /\ Len(s) >= 16 /\ IsIsoDate(SubSeq(s, 1, 10)) /\ s[11] = "T"
       /\ \/ IsClock(SubSeq(s, 12, 16)) /\ IsFractionAndZone(SubSeq(s, 17, Len(s)))
          \/ /\ Len(s) >= 19 /\ IsClock(SubSeq(s, 12, 19))
             /\ IsFractionAndZone(SubSeq(s, 20, Len(s)))

\* DATE_PATTERNS[1]
MatchesSlashPattern(s) ==
    LET p == split(s, "/")
    IN  Len(p) = 3 /\ DigitRun(p[1], 2, 4) /\ DigitRun(p[2], 2, 2)
                   /\ DigitRun(p[3], 2, 4)

\* DATE_PATTERNS[2]
MatchesDotPattern(s) ==
    LET p == split(s, DOT)
    IN  Len(p) = 3 /\ DigitRun(p[1], 2, 2) /\ DigitRun(p[2], 2, 2)
                   /\ DigitRun(p[3], 4, 4)

\* DATE_PATTERNS[3]
MatchesSpacePattern(s) ==
    /\ Len(s) >= 16 /\ IsIsoDate(SubSeq(s, 1, 10)) /\ IsWhitespace(s[11])
    /\ IsClock(trimStart(SubSeq(s, 11, Len(s))))

\* The lastIndex of each of the four patterns when the module is loaded.
FreshLastIndex == <<0, 0, 0, 0>>

\* DATE_PATTERNS with the global flag on every literal.
PatternFlagsMutant == "g"

\* The flags of the four literals of DATE_PATTERNS: none.
PatternFlags == ""

\* re.test(s) for a pattern anchored at both ends, where matches tells
\* whether the whole of s matches and last is re.lastIndex before the call.
\* Without the g or y flag the search starts at 0 and lastIndex is left
\* alone; with one of them it starts at lastIndex, which a match moves to
\* the end of s and a failure resets to 0.
RegExpTest(flags, matches, last, len) ==
    IF flags \notin {"g", "y", "gy"}
    THEN [result |-> matches, lastIndex |-> last]
    ELSE IF last = 0 /\ matches
    THEN [result |-> TRUE, lastIndex |-> len]
    ELSE [result |-> FALSE, lastIndex |-> 0]

DatePatternMatches(k, s) ==
    IF k = 1 THEN MatchesIsoPattern(s)
    ELSE IF k = 2 THEN MatchesSlashPattern(s)
    ELSE IF k = 3 THEN MatchesDotPattern(s)
    ELSE MatchesSpacePattern(s)

\* DATE_PATTERNS.some((re) => re.test(trimmed)) from pattern k on: some
\* stops at the first pattern that matches.
RECURSIVE TestDatePatterns(_, _, _)
TestDatePatterns(s, last, k) ==
    IF k > Len(last) THEN [result |-> FALSE, lastIndex |-> last]
    ELSE LET t == RegExpTest(PatternFlags, DatePatternMatches(k, s),
                             last[k], Len(s))
             after == [last EXCEPT ![k] = t.lastIndex]
         IN  IF t.result THEN [result |-> TRUE, lastIndex |-> after]
             ELSE TestDatePatterns(s, after, k + 1)

\* Date.parse(trimmed) is not NaN, for a string that matches a pattern: the
\* month is 1..12 and the day 1..31, the hour below 24, minute and second
\* below 60.  Outside the ISO form the month comes first (or the year, when
\* it has more than two digits).
InRange(s, lo, hi) == DigitsValue(s) >= lo /\ DigitsValue(s) <= hi

ClockValid(s) ==
    LET p == split(s, ":")
    IN  /\ InRange(p[1], 0, 23) /\ InRange(p[2], 0, 59)
        /\ (Len(p) = 3 => InRange(SubSeq(p[3], 1, 2), 0, 59))

DateParseValid(s) ==
    IF MatchesIsoPattern(s) \/ MatchesSpacePattern(s)
    THEN /\ InRange(SubSeq(s, 6, 7), 1, 12) /\ InRange(SubSeq(s, 9, 10), 1, 31)
         /\ (Len(s) > 10 =>
                LET rest == trimStart(SubSeq(s, 12, Len(s)))
                IN  ClockValid(SubSeq(rest, 1, Min(8, Len(rest)))))
    ELSE LET p == split(s, IF MatchesSlashPattern(s) THEN "/" ELSE DOT)
         IN  IF Len(p[1]) > 2
             THEN InRange(p[2], 1, 12) /\ InRange(p[3], 1, 31)
             ELSE InRange(p[1], 1, 12) /\ InRange(p[2], 1, 31)

\* isDateValue(value) when the patterns' lastIndex is last: the result and
\* the lastIndex it leaves.
isDateValue(value, last) ==
    IF value.type # "string" THEN [result |-> FALSE, lastIndex |-> last]
    ELSE LET trimmed == trim(value.s)
             matchesPattern == TestDatePatterns(trimmed, last, 1)
         IN  IF trimmed = <<>> THEN [result |-> FALSE, lastIndex |-> last]
             ELSE IF ~matchesPattern.result
             THEN [result |-> FALSE, lastIndex |-> matchesPattern.lastIndex]
             ELSE [result |-> DateParseValid(trimmed),
                   lastIndex |-> matchesPattern.lastIndex]

NumericThresholdPct == 90
DateThresholdPct == 80

\* ColumnType with numericCount / nonNullCount > 0.9.
ColumnTypeMutant(numericCount, dateCount, nonNullCount) ==
    IF nonNullCount > 0
        /\ 100 * numericCount > NumericThresholdPct * nonNullCount
    THEN "numeric"
    ELSE IF nonNullCount > 0
        /\ 100 * dateCount >= DateThresholdPct * nonNullCount
    THEN "date"
    ELSE "string"

\* The type of a column from its three counts.  count / nonNull >= 0.9 is
\* compared as 100 * count >= 90 * nonNull: the quotient of two row counts
\* rounds to the double 0.9 only when it is 0.9.
ColumnType(numericCount, dateCount, nonNullCount) ==
    IF nonNullCount > 0
        /\ 100 * numericCount >= NumericThresholdPct * nonNullCount
    THEN "numeric"
    ELSE IF nonNullCount > 0
        /\ 100 * dateCount >= DateThresholdPct * nonNullCount
    THEN "date"
    ELSE "string"

\* The loop over the rows for one column, from row r on; acc holds the three
\* counters and the patterns' lastIndex.
RECURSIVE CountColumn(_, _, _, _)
CountColumn(rs, index, r, acc) ==
    IF r > Len(rs) THEN acc
    ELSE IF rs[r][index + 1] \in {Null, Undefined}
    THEN CountColumn(rs, index, r + 1, acc)
    ELSE IF rs[r][index + 1].type = "number"
    THEN CountColumn(rs, index, r + 1,
                     [acc EXCEPT !.nonNullCount = @ + 1,
                                 !.numericCount = @ + 1])
    ELSE LET d == isDateValue(rs[r][index + 1], acc.lastIndex)
         IN  CountColumn(rs, index, r + 1,
                         [acc EXCEPT !.nonNullCount = @ + 1,
                                     !.dateCount = @ + IF d.result THEN 1 ELSE 0,
                                     !.lastIndex = d.lastIndex])

\* One element of inferColumnTypes' result, from the counters c of its loop.
InferColumn(name, index, c) ==
    [name |-> name,
     type |-> ColumnType(c.numericCount, c.dateCount, c.nonNullCount),
     index |-> index,
     numericCount |-> c.numericCount, nonNullCount |-> c.nonNullCount]

\* headerNames.map(...) from column i on; acc holds the columns so far and
\* the patterns' lastIndex.
RECURSIVE InferColumnsFrom(_, _, _, _)
InferColumnsFrom(names, rs, i, acc) ==
    IF i > Len(names) THEN acc
    ELSE LET c == CountColumn(rs, i - 1, 1,
                              [numericCount |-> 0, dateCount |-> 0,
                               nonNullCount |-> 0, lastIndex |-> acc.lastIndex])
         IN  InferColumnsFrom(names, rs, i + 1,
                              [columns |-> Append(acc.columns,
                                                  InferColumn(names[i], i - 1, c)),
                               lastIndex |-> c.lastIndex])

\* inferColumnTypes(headerNames, rows) when the patterns' lastIndex is last:
\* the columns and the lastIndex it leaves.
inferColumnTypes(names, rs, last) ==
    InferColumnsFrom(names, rs, 1, [columns |-> <<>>, lastIndex |-> last])

(***************************************************************************)
(* 5. parseCSV                                                             *)
(***************************************************************************)
NoError == [name |-> "none", code |-> "none", metadata |-> Null]

ParseError(code, metadata) ==
    [name |-> "ParseError", code |-> code, metadata |-> metadata]

\* overrides.x && overrides.x !== 'auto'
IsExplicit(v) == v # "" /\ v # "auto"

\* commentHeaderLine.replace(/^#\s*/, '')
StripHash(line) ==
    IF startsWith(line, HASH) THEN trimStart(Tail(line)) ELSE line

\* 'Column ' followed by the decimal digits of n
RECURSIVE DecimalDigits(_)
DecimalDigits(n) ==
    IF n < 10 THEN <<Digits[n + 1]>>
    ELSE DecimalDigits(n \div 10) \o <<Digits[(n % 10) + 1]>>

\* ColumnName numbering from 0.
ColumnNameMutant(n) == <<"C", "o", "l", "u", "m", "n", SPACE>> \o DecimalDigits(n - 1)

ColumnName(n) == <<"C", "o", "l", "u", "m", "n", SPACE>> \o DecimalDigits(n)

\* Papa.parse(csvText, { delimiter, skipEmptyLines: true }).data for a text
\* without quotes: one row per line of the text, one cell per field; a row
\* that is a single empty cell is skipped.  Such a text gives no
\* parseResult.errors, so no warningParseError.
PapaParse(csvText, delim) ==
    LET lines == split(csvText, LF)
        all == [i \in 1..Len(lines) |-> split(lines[i], delim)]
    IN  FilterIdx(all, {i \in 1..Len(all) : all[i] # <<<<>>>>}, 1)

\* NormalizeValue that rewrites whatever the decimal separator.
NormalizeValueMutant(cell, decimalSep) ==
    IF cell.type = "string" THEN Str(replaceAll(cell.s, COMMA, DOT)) ELSE cell

\* Step 6 for one cell.
NormalizeValue(cell, decimalSep) ==
    IF decimalSep = COMMA
    THEN IF cell.type = "string" THEN Str(replaceAll(cell.s, COMMA, DOT)) ELSE cell
    ELSE cell

\* ConvertValue without the test for the empty string.
ConvertValueMutant(cell) ==
    IF cell \in {Null, Undefined} THEN Null
    ELSE IF ~isNaN(Number(trim(cell.s))) THEN Number(trim(cell.s))
    ELSE Str(trim(cell.s))

\* Step 7 for one cell; String(cell) of a string is the string.
ConvertValue(cell) ==
    IF cell \in {Null, Undefined} THEN Null
    ELSE LET str == trim(cell.s)
             num == Number(str)
         IN  IF str = <<>> THEN Null
             ELSE IF ~isNaN(num) THEN num ELSE Str(str)

\* ResolveDelimiter that never reads the override.
ResolveDelimiterMutant(ov, lines) == autoDetectDelimiter(lines)

\* Step 2.
ResolveDelimiter(ov, lines) ==
    IF IsExplicit(ov.delimiter) THEN ov.delimiter ELSE autoDetectDelimiter(lines)

\* Step 3.
ResolveDecimal(ov, delim) ==
    IF IsExplicit(ov.decimal) THEN ov.decimal ELSE detectDecimalSeparator(delim)

\* stripped.split(delimiter).map((h) => h.trim()) of step 4
CommentFields(comment, delim) == TrimmedCells(StripHash(comment.s), delim)

\* The test of step 4 that makes the comment line the header.
CommentQualifies(comment, lines, delim) ==
    /\ comment # Null
    /\ Len(CommentFields(comment, delim)) = Len(split(lines[1], delim))

\* hasHeaderDetected when the comment line is not the header.
FirstLineIsHeader(ov, lines, delim, decimalSep) ==
    IF IsExplicit(ov.hasHeader)
    THEN ov.hasHeader = "true"
    ELSE detectHeader(lines[1], Tail(lines), delim, decimalSep)

\* Step 4: commentIsHeader, hasHeaderDetected, headerNames and rowLines.
ResolveHeader(ov, comment, lines, delim, decimalSep) ==
    IF CommentQualifies(comment, lines, delim)
    THEN [commentIsHeader |-> TRUE,
          hasHeaderDetected |-> TRUE,
          headerNames |-> CommentFields(comment, delim),
          rowLines |-> lines]
    ELSE IF FirstLineIsHeader(ov, lines, delim, decimalSep)
    THEN [commentIsHeader |-> FALSE,
          hasHeaderDetected |-> TRUE,
          headerNames |-> TrimmedCells(lines[1], delim),
          rowLines |-> Tail(lines)]
    ELSE [commentIsHeader |-> FALSE,
          hasHeaderDetected |-> FALSE,
          headerNames |-> [i \in 1..Len(split(lines[1], delim)) |-> ColumnName(i)],
          rowLines |-> lines]

\* FilterRagged with >= in place of ===.
FilterRaggedMutant(data, expectedCols) ==
    FilterIdx(data, {i \in 1..Len(data) : Len(data[i]) >= expectedCols}, 1)

\* rows.filter((row) => row.length === expectedCols)
FilterRagged(data, expectedCols) ==
    FilterIdx(data, {i \in 1..Len(data) : Len(data[i]) = expectedCols}, 1)

\* RaggedWarning that reports the rows kept.
RaggedWarningMutant(beforeCount, afterCount) ==
    IF afterCount < beforeCount
    THEN <<[key |-> "warningRaggedRows", params |-> [count |-> afterCount]]>>
    ELSE <<>>

\* The ragged-row warning of step 5.
RaggedWarning(beforeCount, afterCount) ==
    IF afterCount < beforeCount
    THEN <<[key |-> "warningRaggedRows",
            params |-> [count |-> beforeCount - afterCount]]>>
    ELSE <<>>

\* Steps 6 and 7 over rows of cells.
ConvertValues(rs, decimalSep) ==
    [r \in 1..Len(rs) |->
        [c \in 1..Len(rs[r]) |->
            ConvertValue(NormalizeValue(rs[r][c], decimalSep))]]

\* Steps 6 and 7 over the kept rows, whose cells are the tokenizer's strings.
ConvertRows(kept, decimalSep) ==
    ConvertValues([r \in 1..Len(kept) |->
                        [c \in 1..Len(kept[r]) |-> Str(kept[r][c])]],
                  decimalSep)

\* NoNumericWarning with columns.every in place of columns.some.
NoNumericWarningMutant(cols) ==
    IF \A i \in 1..Len(cols) : cols[i].type = "numeric"
    THEN <<>>
    ELSE <<[key |-> "warningNoNumericColumns"]>>

\* The warnings of step 8 for the columns cols, in the order of the code.
NoNumericWarning(cols) ==
    IF \E i \in 1..Len(cols) : cols[i].type = "numeric"
    THEN <<>>
    ELSE <<[key |-> "warningNoNumericColumns"]>>

\* MissingWarnings that warns only from the second null on.
RECURSIVE MissingWarningsMutant(_, _, _)
MissingWarningsMutant(cols, rs, i) ==
    IF i > Len(cols) THEN <<>>
    ELSE LET nullCount == Cardinality({r \in 1..Len(rs) : rs[r][i] = Null})
         IN  (IF nullCount > 1
              THEN <<[key |-> "warningMissingValues",
                      params |-> [column |-> cols[i].name, count |-> nullCount]]>>
              ELSE <<>>) \o MissingWarningsMutant(cols, rs, i + 1)

\* The loop of step 8 that reports the missing values, from column i on.
RECURSIVE MissingWarnings(_, _, _)
MissingWarnings(cols, rs, i) ==
    IF i > Len(cols) THEN <<>>
    ELSE LET nullCount == Cardinality({r \in 1..Len(rs) : rs[r][i] = Null})
         IN  (IF nullCount > 0
              THEN <<[key |-> "warningMissingValues",
                      params |-> [column |-> cols[i].name, count |-> nullCount]]>>
              ELSE <<>>) \o MissingWarnings(cols, rs, i + 1)

\* UnparseableWarnings without the test of the column's type.
RECURSIVE UnparseableWarningsMutant(_, _, _)
UnparseableWarningsMutant(cols, rs, i) ==
    IF i > Len(cols) THEN <<>>
    ELSE LET stringCount ==
                Cardinality({r \in 1..Len(rs) : rs[r][i].type = "string"})
         IN  (IF stringCount > 0
              THEN <<[key |-> "warningUnparseable",
                      params |-> [column |-> cols[i].name, count |-> stringCount]]>>
              ELSE <<>>) \o UnparseableWarningsMutant(cols, rs, i + 1)

\* The loop of step 8 that reports the strings of numeric columns, from
\* column i on.
RECURSIVE UnparseableWarnings(_, _, _)
UnparseableWarnings(cols, rs, i) ==
    IF i > Len(cols) THEN <<>>
    ELSE LET stringCount ==
                Cardinality({r \in 1..Len(rs) : rs[r][i].type = "string"})
         IN  (IF cols[i].type = "numeric" /\ stringCount > 0
              THEN <<[key |-> "warningUnparseable",
                      params |-> [column |-> cols[i].name, count |-> stringCount]]>>
              ELSE <<>>) \o UnparseableWarnings(cols, rs, i + 1)

\* The conditions under which parseCSV throws.
ThrowsNoData(lines) == Len(lines) = 0
ThrowsNoDataRows(rl) == Len(rl) = 0
\* ThrowsTooFewColumns with the bound off by one.
ThrowsTooFewColumnsMutant(cols) == Len(cols) < 1
ThrowsTooFewColumns(cols) == Len(cols) < 2

\* Metadata that reports the header as detected by default.
MetadataMutant(delim, decimalSep, hasHeader, skipped) ==
    [delimiter |-> delim, decimalSeparator |-> decimalSep,
     hasHeader |-> TRUE, commentLinesSkipped |-> skipped]

\* { delimiter, decimalSeparator, hasHeader: hasHeaderDetected, commentLinesSkipped }
Metadata(delim, decimalSep, hasHeader, skipped) ==
    [delimiter |-> delim, decimalSeparator |-> decimalSep,
     hasHeader |-> hasHeader, commentLinesSkipped |-> skipped]

\* parseCSV leaves through the throw of error e, the locals of the later
\* steps unassigned.
Throw(e) ==
    /\ error' = e
    /\ pc' = "done"

\* One run of parseCSV(fileBuffer, overrides); each \E over a one-element
\* set is a const of the code.
ParseCSV ==
    /\ pc = "start"
    /\ \E pre \in {preprocessLines(text)} :
        /\ commentHeaderLine' = pre.commentHeaderLine
        /\ dataLines' = pre.dataLines
        /\ commentLinesSkipped' = pre.commentLinesSkipped
        /\ IF ThrowsNoData(pre.dataLines)
           THEN /\ Throw(ParseError("NO_DATA", Null))
                /\ UNCHANGED <<delimiter, decimalSeparator, commentIsHeader,
                               hasHeaderDetected, headerNames, rowLines,
                               tokenized, rows, columns, warnings, lastIndex>>
           ELSE
            \E delim \in {ResolveDelimiter(overrides, pre.dataLines)} :
            \E decimalSep \in {ResolveDecimal(overrides, delim)} :
            \E hdr \in {ResolveHeader(overrides, pre.commentHeaderLine,
                                      pre.dataLines, delim, decimalSep)} :
            \E meta \in {Metadata(delim, decimalSep, hdr.hasHeaderDetected,
                                  pre.commentLinesSkipped)} :
                /\ delimiter' = delim
                /\ decimalSeparator' = decimalSep
                /\ commentIsHeader' = hdr.commentIsHeader
                /\ hasHeaderDetected' = hdr.hasHeaderDetected
                /\ headerNames' = hdr.headerNames
                /\ rowLines' = hdr.rowLines
                /\ IF ThrowsNoDataRows(hdr.rowLines)
                   THEN /\ Throw(ParseError("NO_DATA_ROWS", meta))
                        /\ UNCHANGED <<tokenized, rows, columns, warnings,
                                       lastIndex>>
                   ELSE
                    \E data \in {PapaParse(join(hdr.rowLines, LF), delim)} :
                    \E kept \in {FilterRagged(data, Len(hdr.headerNames))} :
                    \E converted \in {ConvertRows(kept, decimalSep)} :
                    \E inferred \in {inferColumnTypes(hdr.headerNames, converted,
                                                       lastIndex)} :
                    \E cols \in {inferred.columns} :
                        /\ lastIndex' = inferred.lastIndex
                        /\ tokenized' = data
                        /\ rows' = converted
                        /\ columns' = cols
                        /\ IF ThrowsTooFewColumns(cols)
                           THEN /\ Throw(ParseError("TOO_FEW_COLUMNS", meta))
                                /\ warnings' = RaggedWarning(Len(data), Len(kept))
                           ELSE /\ error' = error
                                /\ pc' = "done"
                                /\ warnings' =
                                    RaggedWarning(Len(data), Len(kept))
                                        \o NoNumericWarning(cols)
                                        \o MissingWarnings(cols, converted, 1)
                                        \o UnparseableWarnings(cols, converted, 1)
    /\ UNCHANGED <<text, overrides, history>>
    /\ UNCHANGED validatorVars
    /\ UNCHANGED clientVars
    /\ UNCHANGED rangeVars

(***************************************************************************)
(* utils/validators.js.  A buffer is given by its length and the offsets   *)
(* of its zero bytes; a file is null, undefined or the record multer       *)
(* builds.  The MIME type is compared as a whole, the name is a sequence   *)
(* of characters.                                                          *)
(***************************************************************************)
VALID_MIMETYPES ==
    {"text/csv", "text/plain", "application/csv", "application/vnd.ms-excel"}

SampleBytes == 1024

\* s.toLowerCase(), for names in ASCII.
LowerCaseOf(ch) ==
    IF ch = "C" THEN "c" ELSE IF ch = "S" THEN "s" ELSE IF ch = "V" THEN "v"
    ELSE IF ch = "A" THEN "a" ELSE IF ch = "T" THEN "t" ELSE IF ch = "X" THEN "x"
    ELSE ch

toLowerCase(s) == [i \in 1..Len(s) |-> LowerCaseOf(s[i])]

\* s.endsWith(suffix)
endsWith(s, suffix) ==
    Len(s) >= Len(suffix) /\ SubSeq(s, Len(s) - Len(suffix) + 1, Len(s)) = suffix

\* buffer.slice(start, end) with 0 <= start <= end <= buffer.length
slice(buffer, start, end) ==
    [length |-> end - start,
     zeros |-> {z - start : z \in {y \in buffer.zeros : y >= start /\ y < end}}]

\* buffer.includes(0)
includesZero(buffer) == buffer.zeros # {}

\* SampleOf that takes the whole buffer.
SampleOfMutant(buffer) == buffer

\* file.buffer.slice(0, Math.min(1024, file.buffer.length))
SampleOf(buffer) == slice(buffer, 0, Min(SampleBytes, buffer.length))

Invalid(code) == [valid |-> FALSE, code |-> code]

validateFile(f) ==
    IF f \in {Null, Undefined} THEN Invalid("NO_FILE")
    ELSE IF f.size = 0 THEN Invalid("EMPTY_FILE")
    ELSE LET isValidMimetype == f.mimetype \in VALID_MIMETYPES
             isValidExtension ==
                endsWith(toLowerCase(f.originalname), <<DOT, "c", "s", "v">>)
         IN  IF ~isValidMimetype /\ ~isValidExtension THEN Invalid("INVALID_TYPE")
             ELSE IF includesZero(SampleOf(f.buffer)) THEN Invalid("BINARY_FILE")
             ELSE [valid |-> TRUE]

\* The variables of parser.js and inferTypes.js.
parserVars == <<text, overrides, commentHeaderLine, dataLines,
                commentLinesSkipped, delimiter, decimalSeparator,
                commentIsHeader, hasHeaderDetected, headerNames, rowLines,
                tokenized, rows, columns, warnings, error, lastIndex, history>>

\* parseCSV has not been called.
ParserIdle ==
    /\ text = <<>>
    /\ overrides = [delimiter |-> "auto", decimal |-> "auto", hasHeader |-> "auto"]
    /\ commentHeaderLine = Null
    /\ dataLines = <<>>
    /\ commentLinesSkipped = 0
    /\ delimiter = ""
    /\ decimalSeparator = ""
    /\ commentIsHeader = FALSE
    /\ hasHeaderDetected = FALSE
    /\ headerNames = <<>>
    /\ rowLines = <<>>
    /\ tokenized = <<>>
    /\ rows = <<>>
    /\ columns = <<>>
    /\ warnings = <<>>
    /\ error = NoError
    /\ lastIndex = FreshLastIndex
    /\ history = {}

\* No file is being validated.
ValidatorIdle == file = Null /\ validation = Null

(***************************************************************************)
(* client/src/App.jsx and the components that call its handlers.  A        *)
(* column index that may be null is Null or Num(index, 0); an error code   *)
(* of null and a missing originalType are the empty string, which the code *)
(* treats alike.  The rows of a result are left out: the client reads      *)
(* them only to draw.  The files are those FileUpload lets through.        *)
(***************************************************************************)
DEFAULT_SETTINGS == [delimiter |-> "auto", decimal |-> "auto", hasHeader |-> "auto"]

MAX_AUTO_Y == 4

\* The number of doUpload calls of a run.
MaxUploads == 2

\* The variables the client does not touch.
serverVars == <<pc, parserVars, validatorVars>>

\* The variables of the App component before the first event.
ClientIdle ==
    /\ appFile = Null
    /\ parsingSettings = DEFAULT_SETTINGS
    /\ isUploading = FALSE
    /\ parseResult = Null
    /\ lastMetadata = Null
    /\ appError = Null
    /\ selectedXColumn = Null
    /\ selectedYColumns = <<>>
    /\ columnNames = <<>>
    /\ overriddenColumns = {}
    /\ toast = Null
    /\ fetches = {}
    /\ requests = {}
    /\ started = <<>>

\* array.includes(x)
includes(array, x) == \E i \in 1..Len(array) : array[i] = x

\* array.filter((idx) => idx !== x)
without(array, x) == SelectSeq(array, LAMBDA idx : idx # x)

\* One element of App's columns: the custom name and the type override
\* merged into a column of the parse result.
MergedColumn(col) ==
    [name |-> IF col.index \in DOMAIN columnNames
              THEN columnNames[col.index] ELSE col.name,
     type |-> IF col.index \in overriddenColumns /\ col.type # "numeric"
              THEN "numeric" ELSE col.type,
     originalType |-> IF col.index \in overriddenColumns /\ col.type # "numeric"
                      THEN col.type ELSE "",
     index |-> col.index,
     numericCount |-> col.numericCount,
     nonNullCount |-> col.nonNullCount]

\* const columns = useMemo(...)
AppColumns ==
    IF parseResult = Null THEN <<>>
    ELSE [i \in 1..Len(parseResult.columns) |-> MergedColumn(parseResult.columns[i])]

hasPlottableColumns == \E i \in 1..Len(AppColumns) : AppColumns[i].type = "numeric"

\* The index of the first 'warningNoNumericColumns' in warnings, 0 for none.
NoNumericIdx(ws) ==
    IF \E i \in 1..Len(ws) : ws[i].key = "warningNoNumericColumns"
    THEN CHOOSE i \in 1..Len(ws) :
            /\ ws[i].key = "warningNoNumericColumns"
            /\ \A j \in 1..(i - 1) : ws[j].key # "warningNoNumericColumns"
    ELSE 0

\* result.warnings.splice(noNumericIdx, 1)
SpliceOut(ws, idx) ==
    IF idx = 0 THEN ws
    ELSE SubSeq(ws, 1, idx - 1) \o SubSeq(ws, idx + 1, Len(ws))

\* The first MAX_AUTO_Y numeric columns other than the first column.
AutoY(cols) ==
    LET numericY == SelectSeq(cols,
                        LAMBDA c : c.index # cols[1].index /\ c.type = "numeric")
        kept == SubSeq(numericY, 1, Min(MAX_AUTO_Y, Len(numericY)))
    IN  [i \in 1..Len(kept) |-> kept[i].index]

\* The synchronous part of doUpload(fileToUpload, settings), up to the
\* await: the request leaves.  started is the list of the calls made, each
\* with whether a request was awaited when it began.
DoUploadStart(fileToUpload, settings) ==
    /\ isUploading' = TRUE
    /\ appError' = Null
    /\ requests' = requests \cup {[id |-> Len(started) + 1,
                                   file |-> fileToUpload,
                                   settings |-> settings]}
    /\ started' = Append(started, [file |-> fileToUpload,
                                   settings |-> settings,
                                   overlapped |-> requests # {}])

\* The try block of doUpload after the await, for the response data result.
DoUploadSuccess(result) ==
    \E noNumericIdx \in {NoNumericIdx(result.warnings)} :
        /\ appError' = IF noNumericIdx # 0
                       THEN [code |-> "NO_NUMERIC_COLUMNS",
                             fallback |-> "No numeric columns found."]
                       ELSE appError
        /\ parseResult' = [result EXCEPT
                              !.warnings = SpliceOut(@, noNumericIdx)]
        /\ lastMetadata' = result.metadata
        /\ toast' = [rowCount |-> result.rowCount]
        /\ IF Len(result.columns) > 0
           THEN /\ selectedXColumn' = Num(result.columns[1].index, 0)
                /\ selectedYColumns' = AutoY(result.columns)
           ELSE /\ selectedXColumn' = selectedXColumn
                /\ selectedYColumns' = <<>>
        /\ columnNames' = <<>>
        /\ overriddenColumns' = {}

\* The catch block of doUpload: err.response.data is data, or Undefined
\* when no response came; message is err.message.
DoUploadFailure(data, message) ==
    /\ lastMetadata' = IF data # Undefined /\ data.metadata # Undefined
                       THEN data.metadata ELSE lastMetadata
    /\ appError' = [code |-> IF data # Undefined THEN data.code ELSE "",
                    fallback |-> IF data # Undefined /\ data.error # ""
                                 THEN data.error ELSE message]
    /\ parseResult' = Null
    /\ selectedXColumn' = Null
    /\ selectedYColumns' = <<>>
    /\ columnNames' = <<>>
    /\ overriddenColumns' = {}
    /\ toast' = toast

(***************************************************************************)
(* The server as the client sees it: what POST /api/upload answers for     *)
(* the three sample files and for four files of the user.  mixed.csv is    *)
(* "t,v / a,1 / 2,3", text.csv is "a,b / 1,c / d,e", header.csv is the     *)
(* single line "a,b" and comments.csv the single line "#a".  The header of *)
(* TestData2.csv is its last comment line, whatever the settings.          *)
(***************************************************************************)
\* new File(..., name, ...)
File(name) == [name |-> name]

ClientFiles ==
    {File(name) : name \in {"mixed.csv", "text.csv", "header.csv",
                            "comments.csv"}}

SAMPLE_FILES ==
    {[name |-> "TestData1.csv"], [name |-> "TestData2.csv"],
     [name |-> "TestData3.csv"]}

ClientSettings ==
    {DEFAULT_SETTINGS, [DEFAULT_SETTINGS EXCEPT !.hasHeader = "false"]}

Column(name, type, index, numericCount, nonNullCount) ==
    [name |-> name, type |-> type, index |-> index,
     numericCount |-> numericCount, nonNullCount |-> nonNullCount]

ResponseMetadata(f, delim, hasHeader, skipped) ==
    [delimiter |-> delim, decimalSeparator |-> detectDecimalSeparator(delim),
     hasHeader |-> hasHeader, commentLinesSkipped |-> skipped,
     originalFileName |-> f.name]

NoNumericColumns == <<[key |-> "warningNoNumericColumns"]>>

Unparseable == <<[key |-> "warningUnparseable"]>>

\* n numeric columns of rowCount numbers each, over strings many header
\* cells read as data.
NumericColumns(names, rowCount, strings) ==
    [i \in 1..Len(names) |->
        Column(names[i], "numeric", i - 1, rowCount, rowCount + strings)]

Ok(cols, rowCount, ws, metadata) ==
    [status |-> 200,
     data |-> [columns |-> cols, rowCount |-> rowCount, warnings |-> ws,
               metadata |-> metadata]]

BadRequest(message, code, metadata) ==
    [status |-> 400,
     data |-> [error |-> message, code |-> code, metadata |-> metadata]]

\* The answer to an upload of f with settings.
ResponseOf(f, settings) ==
    LET header == settings.hasHeader # "false"
        meta == ResponseMetadata(f, COMMA, header, 0)
    IN  IF f.name = "TestData1.csv"
        THEN IF header
             THEN Ok(NumericColumns(<<"Referenznummer", "B", "C", "D">>, 101, 0),
                     101, <<>>, ResponseMetadata(f, SEMICOLON, TRUE, 0))
             ELSE Ok(NumericColumns(<<"Column 1", "Column 2", "Column 3",
                                      "Column 4">>, 101, 1),
                     102, Unparseable, ResponseMetadata(f, SEMICOLON, FALSE, 0))
        ELSE IF f.name = "TestData2.csv"
        THEN Ok(NumericColumns(<<"Point Nr.", "Freq.", "FRFMag", "FRFPhase">>,
                               201, 0),
                201, <<>>, ResponseMetadata(f, SEMICOLON, TRUE, 29))
        ELSE IF f.name = "TestData3.csv"
        THEN IF header
             THEN Ok(NumericColumns(<<"x", "y">>, 9267, 0), 9267, <<>>, meta)
             ELSE Ok(NumericColumns(<<"Column 1", "Column 2">>, 9267, 1),
                     9268, Unparseable, meta)
        ELSE IF f.name = "mixed.csv"
        THEN IF header
             THEN Ok(<<Column("t", "string", 0, 1, 2),
                       Column("v", "numeric", 1, 2, 2)>>, 2, <<>>, meta)
             ELSE Ok(<<Column("Column 1", "string", 0, 1, 3),
                       Column("Column 2", "string", 1, 2, 3)>>, 3,
                     NoNumericColumns, meta)
        ELSE IF f.name = "text.csv"
        THEN IF header
             THEN Ok(<<Column("a", "string", 0, 1, 2),
                       Column("b", "string", 1, 0, 2)>>, 2,
                     NoNumericColumns, meta)
             ELSE Ok(<<Column("Column 1", "string", 0, 1, 3),
                       Column("Column 2", "string", 1, 0, 3)>>, 3,
                     NoNumericColumns, meta)
        ELSE IF f.name = "header.csv"
        THEN IF header
             THEN BadRequest("The file contains headers but no data rows.",
                             "NO_DATA_ROWS", meta)
             ELSE Ok(<<Column("Column 1", "string", 0, 0, 1),
                       Column("Column 2", "string", 1, 0, 1)>>, 1,
                     NoNumericColumns, meta)
        ELSE BadRequest("The file contains no data rows.", "NO_DATA", Undefined)

(***************************************************************************)
(* The handlers.                                                           *)
(***************************************************************************)
\* handleFileSelect(selectedFile), reached from a drop on the upload zone,
\* which does not look at isUploading.
HandleFileSelect(selectedFile) ==
    /\ Len(started) < MaxUploads
    /\ appFile' = selectedFile
    /\ parsingSettings' = DEFAULT_SETTINGS
    /\ DoUploadStart(selectedFile, DEFAULT_SETTINGS)
    /\ UNCHANGED <<parseResult, lastMetadata, selectedXColumn,
                   selectedYColumns, columnNames, overriddenColumns, toast,
                   fetches>>
    /\ UNCHANGED serverVars
    /\ UNCHANGED rangeVars

\* handleSampleSelect(sample) up to its first await: the button is disabled
\* while isUploading.
HandleSampleSelect(sample) ==
    /\ ~isUploading
    /\ Len(started) + Cardinality(fetches) < MaxUploads
    /\ sample \notin fetches
    /\ fetches' = fetches \cup {sample}
    /\ UNCHANGED <<appFile, parsingSettings, isUploading, parseResult,
                   lastMetadata, appError, selectedXColumn, selectedYColumns,
                   columnNames, overriddenColumns, toast, requests, started>>
    /\ UNCHANGED serverVars
    /\ UNCHANGED rangeVars

\* handleSampleSelect(sample) after the fetch: handleFileSelect(sampleFile).
SampleFetched(sample) ==
    /\ sample \in fetches
    /\ Len(started) < MaxUploads
    /\ fetches' = fetches \ {sample}
    /\ appFile' = File(sample.name)
    /\ parsingSettings' = DEFAULT_SETTINGS
    /\ DoUploadStart(File(sample.name), DEFAULT_SETTINGS)
    /\ UNCHANGED <<parseResult, lastMetadata, selectedXColumn,
                   selectedYColumns, columnNames, overriddenColumns, toast>>
    /\ UNCHANGED serverVars
    /\ UNCHANGED rangeVars

\* handleSettingsApply(newSettings): ParsingSettings is shown when there is
\* metadata and a file, and disabled while isUploading.
HandleSettingsApply(newSettings) ==
    /\ lastMetadata # Null /\ appFile # Null
    /\ ~isUploading
    /\ Len(started) < MaxUploads
    /\ newSettings # parsingSettings
    /\ parsingSettings' = newSettings
    /\ DoUploadStart(appFile, newSettings)
    /\ UNCHANGED <<appFile, parseResult, lastMetadata, selectedXColumn,
                   selectedYColumns, columnNames, overriddenColumns, toast,
                   fetches>>
    /\ UNCHANGED serverVars
    /\ UNCHANGED rangeVars

\* The response of the request r arrives, in any order among the requests
\* awaited: the rest of its doUpload runs, the finally block included.
HandleResponse(r) ==
    /\ r \in requests
    /\ \E response \in {ResponseOf(r.file, r.settings)} :
        IF response.status = 200
        THEN DoUploadSuccess(response.data)
        ELSE DoUploadFailure(response.data, "Request failed with status code 400")
    /\ isUploading' = FALSE
    /\ requests' = requests \ {r}
    /\ UNCHANGED <<appFile, parsingSettings, fetches, started>>
    /\ UNCHANGED serverVars
    /\ UNCHANGED rangeVars

\* The request r fails without a response.
HandleNetworkError(r) ==
    /\ r \in requests
    /\ DoUploadFailure(Undefined, "Network Error")
    /\ isUploading' = FALSE
    /\ requests' = requests \ {r}
    /\ UNCHANGED <<appFile, parsingSettings, fetches, started>>
    /\ UNCHANGED serverVars
    /\ UNCHANGED rangeVars

\* ColumnSelector is rendered.
SelectorShown == parseResult # Null /\ hasPlottableColumns

\* ColumnSelector.handleXChange for the option newX.
HandleXChange(newX) ==
    /\ SelectorShown
    /\ \E i \in 1..Len(AppColumns) : AppColumns[i].index = newX
    /\ selectedXColumn # Num(newX, 0)
    /\ selectedXColumn' = Num(newX, 0)
    /\ selectedYColumns' = IF includes(selectedYColumns, newX)
                           THEN without(selectedYColumns, newX)
                           ELSE selectedYColumns
    /\ UNCHANGED <<appFile, parsingSettings, isUploading, parseResult,
                   lastMetadata, appError, columnNames, overriddenColumns,
                   toast, fetches, requests, started>>
    /\ UNCHANGED serverVars
    /\ UNCHANGED rangeVars

\* The columns offered for Y: all but the one selected as X.
yColumns == SelectSeq(AppColumns, LAMBDA col : Num(col.index, 0) # selectedXColumn)

numericYColumns == SelectSeq(yColumns, LAMBDA col : col.type = "numeric")

\* ColumnSelector.handleYToggle for the checkbox of colIndex, which is
\* enabled for a numeric column.
HandleYToggle(colIndex) ==
    /\ SelectorShown
    /\ \E i \in 1..Len(yColumns) :
            yColumns[i].index = colIndex /\ yColumns[i].type = "numeric"
    /\ selectedYColumns' = IF includes(selectedYColumns, colIndex)
                           THEN without(selectedYColumns, colIndex)
                           ELSE Append(selectedYColumns, colIndex)
    /\ UNCHANGED <<appFile, parsingSettings, isUploading, parseResult,
                   lastMetadata, appError, selectedXColumn, columnNames,
                   overriddenColumns, toast, fetches, requests, started>>
    /\ UNCHANGED serverVars
    /\ UNCHANGED rangeVars

allNumericSelected ==
    /\ Len(numericYColumns) > 0
    /\ \A i \in 1..Len(numericYColumns) :
            includes(selectedYColumns, numericYColumns[i].index)

\* ColumnSelector.handleSelectAll: the box is there when a numeric column
\* is offered for Y.
HandleSelectAll ==
    /\ SelectorShown
    /\ Len(numericYColumns) > 0
    /\ selectedYColumns' =
            IF allNumericSelected THEN <<>>
            ELSE [i \in 1..Len(numericYColumns) |-> numericYColumns[i].index]
    /\ UNCHANGED <<appFile, parsingSettings, isUploading, parseResult,
                   lastMetadata, appError, selectedXColumn, columnNames,
                   overriddenColumns, toast, fetches, requests, started>>
    /\ UNCHANGED serverVars
    /\ UNCHANGED rangeVars

\* StatusBar: a string column with at least 30% and less than 90% numbers.
IsOverridable(col) ==
    /\ ~(col.type = "numeric" /\ col.originalType = "")
    /\ (IF col.originalType # "" THEN col.originalType ELSE col.type) = "string"
    /\ col.nonNullCount # 0
    /\ 10 * col.numericCount >= 3 * col.nonNullCount
    /\ 10 * col.numericCount < 9 * col.nonNullCount

\* StatusBar is rendered and offers the column colIndex.
OverrideOffered(colIndex) ==
    /\ appError # Null \/ parseResult # Null
    /\ \E i \in 1..Len(AppColumns) :
            AppColumns[i].index = colIndex /\ IsOverridable(AppColumns[i])

\* App.handleOverride(colIndex): 'Plot anyway'.
HandleOverride(colIndex) ==
    /\ OverrideOffered(colIndex)
    /\ colIndex \notin overriddenColumns
    /\ overriddenColumns' = overriddenColumns \cup {colIndex}
    /\ selectedYColumns' = IF includes(selectedYColumns, colIndex)
                           THEN selectedYColumns
                           ELSE Append(selectedYColumns, colIndex)
    /\ appError' = IF appError # Null /\ appError.code = "NO_NUMERIC_COLUMNS"
                   THEN Null ELSE appError
    /\ UNCHANGED <<appFile, parsingSettings, isUploading, parseResult,
                   lastMetadata, selectedXColumn, columnNames, toast, fetches,
                   requests, started>>
    /\ UNCHANGED serverVars
    /\ UNCHANGED rangeVars

\* App.handleUndoOverride(colIndex).
HandleUndoOverride(colIndex) ==
    /\ OverrideOffered(colIndex)
    /\ colIndex \in overriddenColumns
    /\ overriddenColumns' = overriddenColumns \ {colIndex}
    /\ selectedYColumns' = without(selectedYColumns, colIndex)
    /\ UNCHANGED <<appFile, parsingSettings, isUploading, parseResult,
                   lastMetadata, appError, selectedXColumn, columnNames, toast,
                   fetches, requests, started>>
    /\ UNCHANGED serverVars
    /\ UNCHANGED rangeVars

(***************************************************************************)
(* components/ChartView.jsx: the row range, and components/RangeSlider.    *)
(* ChartView is rendered while a parse result with a plottable column is   *)
(* shown, so its data has at least one row; the state before it is mounted *)
(* is the state of its useState and useRef initial values.                 *)
(***************************************************************************)
RANGE_THRESHOLD == 500

NICE_NUMBERS == <<50, 100, 250, 500, 1000, 2500, 5000, 10000, 25000, 50000>>

RangeIdle ==
    /\ totalRows = 0
    /\ prevTotal = 0
    /\ rangeFrom = 1
    /\ rangeTo = 1
    /\ fromInput = <<"1">>
    /\ toInput = <<"1">>
    /\ rangeOpen = FALSE
    /\ drag = Null
    /\ focus = ""

Max(a, b) == IF a >= b THEN a ELSE b

\* String(n) for an integer n
String(n) == IF n < 0 THEN <<"-">> \o DecimalDigits(0 - n) ELSE DecimalDigits(n)

\* The longest prefix of s made of digits.
RECURSIVE DigitPrefix(_)
DigitPrefix(s) ==
    IF s # <<>> /\ IsDigit(Head(s)) THEN <<Head(s)>> \o DigitPrefix(Tail(s))
    ELSE <<>>

\* parseInt(val, 10): leading white space, a sign, then digits; what
\* follows the digits is ignored, and no digit at all gives NaN.
parseInt(val) ==
    LET s == trimStart(val)
        signed == s # <<>> /\ Head(s) \in {"-", "+"}
        digits == DigitPrefix(IF signed THEN Tail(s) ELSE s)
    IN  IF digits = <<>> THEN [nan |-> TRUE, n |-> 0]
        ELSE [nan |-> FALSE,
              n |-> IF signed /\ Head(s) = "-"
                    THEN 0 - DigitsValue(digits) ELSE DigitsValue(digits)]

\* totalRows || 1
OrOne(total) == IF total = 0 THEN 1 ELSE total

\* The lower clamp left out.
clampedFromOfMutant(from, total) == Min(from, OrOne(total))

\* const clampedFrom = Math.max(1, Math.min(rangeFrom, totalRows || 1))
clampedFromOf(from, total) == Max(1, Min(from, OrOne(total)))

\* const clampedTo = Math.max(clampedFrom, Math.min(rangeTo, totalRows || 1))
clampedToOf(from, to, total) ==
    Max(clampedFromOf(from, total), Min(to, OrOne(total)))

clampedFrom == clampedFromOf(rangeFrom, totalRows)

clampedTo == clampedToOf(rangeFrom, rangeTo, totalRows)

\* sliceRows(data, from, to) as the indices (from 1) of the rows it keeps:
\* data.slice(from - 1, to) of a data of total rows.
sliceRows(total, from, to) ==
    LET start == IF from - 1 < 0 THEN Max(total + from - 1, 0)
                 ELSE Min(from - 1, total)
        end == IF to < 0 THEN Max(total + to, 0) ELSE Min(to, total)
    IN  {i \in 1..total : i > start /\ i <= end}

\* Math.round(total * 0.12)
RoundedShare(total) == (12 * total + 50) \div 100

niceChunk(total) ==
    IF \E i \in 1..Len(NICE_NUMBERS) : NICE_NUMBERS[i] >= RoundedShare(total)
    THEN Min(NICE_NUMBERS[CHOOSE i \in 1..Len(NICE_NUMBERS) :
                    /\ NICE_NUMBERS[i] >= RoundedShare(total)
                    /\ \A j \in 1..(i - 1) :
                            NICE_NUMBERS[j] < RoundedShare(total)],
             total)
    ELSE total

chunkSize == niceChunk(totalRows)

\* chartData: the rows charted, as their indices from 1.
isSubset == rangeOpen /\ (clampedFrom > 1 \/ clampedTo < totalRows)

visibleData ==
    IF isSubset THEN sliceRows(totalRows, clampedFrom, clampedTo)
    ELSE 1..totalRows

\* The range controls and the slider are rendered.
RangeShown == totalRows > 0 /\ rangeOpen

\* ChartView renders with a data of n rows: its first render, or a render
\* with a new data prop.  A new total resets the range and opens the range
\* panel for a large data; the inputs and the slider go with a panel that
\* closes.
NewData(n) ==
    /\ totalRows' = n
    /\ IF n > 0 /\ n # prevTotal
       THEN /\ prevTotal' = n
            /\ rangeFrom' = 1
            /\ rangeTo' = n
            /\ fromInput' = <<"1">>
            /\ toInput' = String(n)
            /\ rangeOpen' = (n >= RANGE_THRESHOLD)
            /\ drag' = IF n >= RANGE_THRESHOLD /\ rangeOpen THEN drag ELSE Null
            /\ focus' = IF n >= RANGE_THRESHOLD /\ rangeOpen THEN focus ELSE ""
       ELSE UNCHANGED <<prevTotal, rangeFrom, rangeTo, fromInput, toInput,
                        rangeOpen, drag, focus>>
    /\ UNCHANGED serverVars
    /\ UNCHANGED clientVars

\* ChartView leaves the page: the result shown has no plottable column, or
\* an upload failed.
Unmount ==
    /\ totalRows > 0
    /\ totalRows' = 0
    /\ prevTotal' = 0
    /\ rangeFrom' = 1
    /\ rangeTo' = 1
    /\ fromInput' = <<"1">>
    /\ toInput' = <<"1">>
    /\ rangeOpen' = FALSE
    /\ drag' = Null
    /\ focus' = ""
    /\ UNCHANGED serverVars
    /\ UNCHANGED clientVars

\* A click needs the pointer, which a drag holds until handleUp, and takes
\* the focus from a range input, whose onBlur commits first.
CanClick == drag = Null /\ focus = ""

\* onRangeToggle
RangeToggle ==
    /\ totalRows > 0
    /\ CanClick
    /\ rangeOpen' = ~rangeOpen
    /\ UNCHANGED <<totalRows, prevTotal, rangeFrom, rangeTo, fromInput,
                   toInput, drag, focus>>
    /\ UNCHANGED serverVars
    /\ UNCHANGED clientVars

\* The From or the To input takes the focus.
Focus(input) ==
    /\ RangeShown
    /\ CanClick
    /\ focus' = input
    /\ UNCHANGED <<totalRows, prevTotal, rangeFrom, rangeTo, fromInput,
                   toInput, rangeOpen, drag>>
    /\ UNCHANGED serverVars
    /\ UNCHANGED clientVars

\* onChange of the From input
TypeFrom(val) ==
    /\ RangeShown
    /\ focus = "from"
    /\ fromInput' = val
    /\ UNCHANGED <<totalRows, prevTotal, rangeFrom, rangeTo, toInput,
                   rangeOpen, drag, focus>>
    /\ UNCHANGED serverVars
    /\ UNCHANGED clientVars

\* onChange of the To input
TypeTo(val) ==
    /\ RangeShown
    /\ focus = "to"
    /\ toInput' = val
    /\ UNCHANGED <<totalRows, prevTotal, rangeFrom, rangeTo, fromInput,
                   rangeOpen, drag, focus>>
    /\ UNCHANGED serverVars
    /\ UNCHANGED clientVars

\* commitFrom(fromInput), on blur or Enter
CommitFrom ==
    /\ RangeShown
    /\ focus = "from"
    /\ focus' = ""
    /\ \E parsed \in {parseInt(fromInput)} :
        IF parsed.nan
        THEN /\ fromInput' = String(clampedFrom)
             /\ rangeFrom' = rangeFrom
        ELSE \E clamped \in {Max(1, Min(parsed.n, clampedTo))} :
                /\ rangeFrom' = clamped
                /\ fromInput' = String(clamped)
    /\ UNCHANGED <<totalRows, prevTotal, rangeTo, toInput, rangeOpen, drag>>
    /\ UNCHANGED serverVars
    /\ UNCHANGED clientVars

\* commitTo(toInput), on blur or Enter
CommitTo ==
    /\ RangeShown
    /\ focus = "to"
    /\ focus' = ""
    /\ \E parsed \in {parseInt(toInput)} :
        IF parsed.nan
        THEN /\ toInput' = String(clampedTo)
             /\ rangeTo' = rangeTo
        ELSE \E clamped \in {Max(clampedFrom, Min(parsed.n, totalRows))} :
                /\ rangeTo' = clamped
                /\ toInput' = String(clamped)
    /\ UNCHANGED <<totalRows, prevTotal, rangeFrom, fromInput, rangeOpen,
                   drag>>
    /\ UNCHANGED serverVars
    /\ UNCHANGED clientVars

\* handleRangeSliderChange(newFrom, newTo)
handleRangeSliderChange(newFrom, newTo) ==
    /\ rangeFrom' = newFrom
    /\ rangeTo' = newTo
    /\ fromInput' = String(newFrom)
    /\ toInput' = String(newTo)

\* setPreset(from, to)
setPreset(from, to) ==
    \E cf \in {Max(1, Min(from, totalRows))} :
        \E ct \in {Max(cf, Min(to, totalRows))} :
            /\ rangeFrom' = cf
            /\ rangeTo' = ct
            /\ fromInput' = String(cf)
            /\ toInput' = String(ct)

\* The buttons First, Last and All.
PresetFirst ==
    /\ RangeShown
    /\ CanClick
    /\ setPreset(1, chunkSize)
    /\ UNCHANGED <<totalRows, prevTotal, rangeOpen, drag, focus>>
    /\ UNCHANGED serverVars
    /\ UNCHANGED clientVars

PresetLast ==
    /\ RangeShown
    /\ CanClick
    /\ setPreset(totalRows - chunkSize + 1, totalRows)
    /\ UNCHANGED <<totalRows, prevTotal, rangeOpen, drag, focus>>
    /\ UNCHANGED serverVars
    /\ UNCHANGED clientVars

PresetAll ==
    /\ RangeShown
    /\ CanClick
    /\ setPreset(1, totalRows)
    /\ UNCHANGED <<totalRows, prevTotal, rangeOpen, drag, focus>>
    /\ UNCHANGED serverVars
    /\ UNCHANGED clientVars

\* The values xToVal gives on a track from 1 to totalRows.
TrackValues(stops) == {val \in stops : val >= 1 /\ val <= totalRows}

\* RangeSlider.handleTrackDown for a click at val: from and to are the
\* props clampedFrom and clampedTo, min is 1 and max is totalRows.
HandleTrackDown(val) ==
    /\ RangeShown
    /\ CanClick
    /\ IF Max(val - clampedFrom, clampedFrom - val)
            <= Max(val - clampedTo, clampedTo - val)
       THEN handleRangeSliderChange(Max(1, Min(val, clampedTo)), clampedTo)
       ELSE handleRangeSliderChange(clampedFrom,
                                    Max(clampedFrom, Min(val, totalRows)))
    /\ UNCHANGED <<totalRows, prevTotal, rangeOpen, drag, focus>>
    /\ UNCHANGED serverVars
    /\ UNCHANGED clientVars

Drag(type, startFrom, startTo) ==
    [type |-> type, startFrom |-> startFrom, startTo |-> startTo]

\* RangeSlider.handleFromDown, handleToDown and handleBarDown
HandleDown(type) ==
    /\ RangeShown
    /\ drag = Null
    /\ drag' = IF type = "bar" THEN Drag("bar", clampedFrom, clampedTo)
               ELSE Drag(type, 0, 0)
    /\ UNCHANGED <<totalRows, prevTotal, rangeFrom, rangeTo, fromInput,
                   toInput, rangeOpen, focus>>
    /\ UNCHANGED serverVars
    /\ UNCHANGED clientVars

\* handleMove while a handle is dragged, the pointer at val.
HandleMoveHandle(val) ==
    /\ RangeShown
    /\ drag # Null /\ drag.type \in {"from", "to"}
    /\ IF drag.type = "from"
       THEN \E clamped \in {Max(1, Min(val, clampedTo))} :
                /\ clamped # clampedFrom
                /\ handleRangeSliderChange(clamped, clampedTo)
       ELSE \E clamped \in {Max(clampedFrom, Min(val, totalRows))} :
                /\ clamped # clampedTo
                /\ handleRangeSliderChange(clampedFrom, clamped)
    /\ UNCHANGED <<totalRows, prevTotal, rangeOpen, drag, focus>>
    /\ UNCHANGED serverVars
    /\ UNCHANGED clientVars

\* handleMove while the bar is dragged, the pointer deltaVal values away
\* from where the drag began.
HandleMoveBar(deltaVal) ==
    /\ RangeShown
    /\ drag # Null /\ drag.type = "bar"
    /\ \E windowSize \in {drag.startTo - drag.startFrom} :
       \E low \in {IF drag.startFrom + deltaVal < 1
                   THEN <<1, 1 + windowSize>>
                   ELSE <<drag.startFrom + deltaVal, drag.startTo + deltaVal>>} :
       \E moved \in {IF low[2] > totalRows
                     THEN <<totalRows - windowSize, totalRows>>
                     ELSE low} :
            /\ moved[1] # clampedFrom \/ moved[2] # clampedTo
            /\ handleRangeSliderChange(moved[1], moved[2])
    /\ UNCHANGED <<totalRows, prevTotal, rangeOpen, drag, focus>>
    /\ UNCHANGED serverVars
    /\ UNCHANGED clientVars

\* handleUp
HandleUp ==
    /\ RangeShown
    /\ drag # Null
    /\ drag' = Null
    /\ UNCHANGED <<totalRows, prevTotal, rangeFrom, rangeTo, fromInput,
                   toInput, rangeOpen, focus>>
    /\ UNCHANGED serverVars
    /\ UNCHANGED clientVars

(***************************************************************************)
(* The inputs: every text of at most MaxTextLen characters of one dialect, *)
(* and every combination of the settings the client offers.                *)
(***************************************************************************)
Dialects ==
    { {HASH, COMMA, "1", "a", LF},
      {HASH, TAB, "1", LF},
      {SEMICOLON, COMMA, "1", LF} }

Texts == UNION {[1..n -> alphabet] : n \in 0..MaxTextLen, alphabet \in Dialects}

Overrides ==
    [delimiter : {"auto", TAB, SEMICOLON, COMMA},
     decimal : {"auto", DOT, COMMA},
     hasHeader : {"auto", "true", "false"}]

Init ==
    /\ pc = "start"
    /\ text \in Texts
    /\ overrides \in Overrides
    /\ commentHeaderLine = Null
    /\ dataLines = <<>>
    /\ commentLinesSkipped = 0
    /\ delimiter = ""
    /\ decimalSeparator = ""
    /\ commentIsHeader = FALSE
    /\ hasHeaderDetected = FALSE
    /\ headerNames = <<>>
    /\ rowLines = <<>>
    /\ tokenized = <<>>
    /\ rows = <<>>
    /\ columns = <<>>
    /\ warnings = <<>>
    /\ error = NoError
    /\ lastIndex = FreshLastIndex
    /\ history = {}
    /\ ValidatorIdle
    /\ ClientIdle
    /\ RangeIdle

Next == ParseCSV

Spec == Init /\ [][Next]_vars

(***************************************************************************)
(* autoDetectDelimiter on its own, on the data lines of every text of at   *)
(* most MaxDetectTextLen characters among the candidates and a letter.     *)
(***************************************************************************)
MaxDetectTextLen == 6

DetectTexts ==
    UNION {[1..n -> {"a", TAB, SEMICOLON, COMMA, LF}] : n \in 0..MaxDetectTextLen}

InitDetect ==
    /\ pc = "detect"
    /\ dataLines \in {preprocessLines(t).dataLines : t \in DetectTexts}
    /\ text = <<>>
    /\ overrides = [delimiter |-> "auto", decimal |-> "auto", hasHeader |-> "auto"]
    /\ commentHeaderLine = Null
    /\ commentLinesSkipped = 0
    /\ delimiter = ""
    /\ decimalSeparator = ""
    /\ commentIsHeader = FALSE
    /\ hasHeaderDetected = FALSE
    /\ headerNames = <<>>
    /\ rowLines = <<>>
    /\ tokenized = <<>>
    /\ rows = <<>>
    /\ columns = <<>>
    /\ warnings = <<>>
    /\ error = NoError
    /\ lastIndex = FreshLastIndex
    /\ history = {}
    /\ ValidatorIdle
    /\ ClientIdle
    /\ RangeIdle

AutoDetectDelimiter ==
    /\ pc = "detect"
    /\ pc' = "detected"
    /\ delimiter' = autoDetectDelimiter(dataLines)
    /\ UNCHANGED <<lastIndex, history>>
    /\ UNCHANGED <<text, overrides, commentHeaderLine, dataLines,
                   commentLinesSkipped, decimalSeparator, commentIsHeader,
                   hasHeaderDetected, headerNames, rowLines, tokenized, rows,
                   columns, warnings, error>>
    /\ UNCHANGED validatorVars
    /\ UNCHANGED clientVars
    /\ UNCHANGED rangeVars

NextDetect == AutoDetectDelimiter

SpecDetect == InitDetect /\ [][NextDetect]_vars

(***************************************************************************)
(* detectHeader on its own: dataLines[1] is the candidate line, the rest   *)
(* the lines after it, for the data lines of every text of at most         *)
(* MaxHeaderTextLen characters.                                            *)
(***************************************************************************)
MaxHeaderTextLen == 5

HeaderTexts ==
    UNION {[1..n -> {"1", "a", COMMA, SEMICOLON, LF}] : n \in 1..MaxHeaderTextLen}

InitHeader ==
    /\ pc = "header"
    /\ dataLines \in {preprocessLines(t).dataLines : t \in HeaderTexts} \ {<<>>}
    /\ delimiter \in {COMMA, SEMICOLON}
    /\ decimalSeparator \in {DOT, COMMA}
    /\ text = <<>>
    /\ overrides = [delimiter |-> "auto", decimal |-> "auto", hasHeader |-> "auto"]
    /\ commentHeaderLine = Null
    /\ commentLinesSkipped = 0
    /\ commentIsHeader = FALSE
    /\ hasHeaderDetected = FALSE
    /\ headerNames = <<>>
    /\ rowLines = <<>>
    /\ tokenized = <<>>
    /\ rows = <<>>
    /\ columns = <<>>
    /\ warnings = <<>>
    /\ error = NoError
    /\ lastIndex = FreshLastIndex
    /\ history = {}
    /\ ValidatorIdle
    /\ ClientIdle
    /\ RangeIdle

DetectHeader ==
    /\ pc = "header"
    /\ pc' = "headerDone"
    /\ hasHeaderDetected' =
            detectHeader(dataLines[1], Tail(dataLines), delimiter, decimalSeparator)
    /\ UNCHANGED <<lastIndex, history>>
    /\ UNCHANGED <<text, overrides, commentHeaderLine, dataLines,
                   commentLinesSkipped, delimiter, decimalSeparator,
                   commentIsHeader, headerNames, rowLines, tokenized, rows,
                   columns, warnings, error>>
    /\ UNCHANGED validatorVars
    /\ UNCHANGED clientVars
    /\ UNCHANGED rangeVars

NextHeader == DetectHeader

SpecHeader == InitHeader /\ [][NextHeader]_vars

(***************************************************************************)
(* parseCSV called directly, as the tests call it: a field of overrides    *)
(* may be absent (""), 'auto', one of the offered values or any other      *)
(* string ("a"), over the texts of at most MaxDirectTextLen characters.    *)
(***************************************************************************)
MaxDirectTextLen == 4

DirectTexts ==
    UNION {[1..n -> alphabet] : n \in 0..MaxDirectTextLen, alphabet \in Dialects}

DirectOverrides ==
    [delimiter : {"", "auto", TAB, SEMICOLON, COMMA, "a"},
     decimal : {"", "auto", DOT, COMMA, "a"},
     hasHeader : {"", "auto", "true", "false"}]

InitDirect ==
    /\ pc = "start"
    /\ text \in DirectTexts
    /\ overrides \in DirectOverrides
    /\ commentHeaderLine = Null
    /\ dataLines = <<>>
    /\ commentLinesSkipped = 0
    /\ delimiter = ""
    /\ decimalSeparator = ""
    /\ commentIsHeader = FALSE
    /\ hasHeaderDetected = FALSE
    /\ headerNames = <<>>
    /\ rowLines = <<>>
    /\ tokenized = <<>>
    /\ rows = <<>>
    /\ columns = <<>>
    /\ warnings = <<>>
    /\ error = NoError
    /\ lastIndex = FreshLastIndex
    /\ history = {}
    /\ ValidatorIdle
    /\ ClientIdle
    /\ RangeIdle

NextDirect == ParseCSV

SpecDirect == InitDirect /\ [][NextDirect]_vars

(***************************************************************************)
(* inferColumnTypes on its own, as its tests call it.  A column is given   *)
(* by its census, the number of cells of each kind: the cells of every     *)
(* kind with at most MaxInferRows cells in all, and finite numbers mixed   *)
(* with strings, PercentRows cells in all, with or without a null.  The    *)
(* rows have two columns: the cells in the order of the kinds, and the     *)
(* same cells in the reverse order.                                        *)
(***************************************************************************)
MaxInferRows == 8
PercentRows == 100

NumberCell == Num(1, 0)
DateCell == Str(<<"2", "0", "2", "6", "-", "0", "2", "-", "0", "1">>)
OtherCell == Str(<<"2", "0", "2", "6", "-", "0", "2">>)

Kinds == <<NumberCell, DateCell, OtherCell, Infinity, NaN, Null, Undefined>>

\* The sequences of k numbers whose sum is at most total.
RECURSIVE Censuses(_, _)
Censuses(k, total) ==
    IF k = 0 THEN {<<>>}
    ELSE UNION {{Append(c, n) : c \in Censuses(k - 1, total - n)} : n \in 0..total}

SmallCensuses == Censuses(Len(Kinds), MaxInferRows)

PercentCensuses ==
    {[k \in 1..Len(Kinds) |->
            IF k = 1 THEN n ELSE IF k = 3 THEN PercentRows - n
            ELSE IF k = 6 THEN z ELSE 0] : n \in 0..PercentRows, z \in 0..1}

RECURSIVE CensusCells(_, _)
CensusCells(c, k) ==
    IF k > Len(Kinds) THEN <<>>
    ELSE [i \in 1..c[k] |-> Kinds[k]] \o CensusCells(c, k + 1)

CensusRows(c) ==
    LET cells == CensusCells(c, 1)
    IN  [r \in 1..Len(cells) |-> <<cells[r], cells[Len(cells) + 1 - r]>>]

InitInfer ==
    /\ pc = "infer"
    /\ headerNames = <<<<"c">>, <<"r">>>>
    /\ rows \in {CensusRows(c) : c \in SmallCensuses \cup PercentCensuses}
    /\ text = <<>>
    /\ overrides = [delimiter |-> "auto", decimal |-> "auto", hasHeader |-> "auto"]
    /\ commentHeaderLine = Null
    /\ dataLines = <<>>
    /\ commentLinesSkipped = 0
    /\ delimiter = ""
    /\ decimalSeparator = ""
    /\ commentIsHeader = FALSE
    /\ hasHeaderDetected = FALSE
    /\ rowLines = <<>>
    /\ tokenized = <<>>
    /\ columns = <<>>
    /\ warnings = <<>>
    /\ error = NoError
    /\ lastIndex = FreshLastIndex
    /\ history = {}
    /\ ValidatorIdle
    /\ ClientIdle
    /\ RangeIdle

InferColumnTypes ==
    /\ pc = "infer"
    /\ pc' = "inferred"
    /\ \E inferred \in {inferColumnTypes(headerNames, rows, lastIndex)} :
        /\ columns' = inferred.columns
        /\ lastIndex' = inferred.lastIndex
    /\ UNCHANGED history
    /\ UNCHANGED <<text, overrides, commentHeaderLine, dataLines,
                   commentLinesSkipped, delimiter, decimalSeparator,
                   commentIsHeader, hasHeaderDetected, headerNames, rowLines,
                   tokenized, rows, warnings, error>>
    /\ UNCHANGED validatorVars
    /\ UNCHANGED clientVars
    /\ UNCHANGED rangeVars

NextInfer == InferColumnTypes

SpecInfer == InitInfer /\ [][NextInfer]_vars

(***************************************************************************)
(* Steps 6 and 7 of parseCSV on their own, on one row of one cell: null,   *)
(* undefined, every string of at most MaxCellLen characters of             *)
(* CellAlphabet, and the cell of the European sample file.  Here tokenized *)
(* holds the cell as a value, rows the converted cell.                     *)
(***************************************************************************)
MaxCellLen == 4

CellAlphabet == {"1", "-", COMMA, DOT, SPACE, "a"}

SampleCell == <<"-", "1", "9", "3", "0", COMMA, "5", "3", "2", "3", "4", "5">>

CellValues ==
    {Null, Undefined, Str(SampleCell)}
        \cup {Str(c) : c \in UNION {[1..n -> CellAlphabet] : n \in 0..MaxCellLen}}

InitConvert ==
    /\ pc = "convert"
    /\ tokenized \in {<<<<v>>>> : v \in CellValues}
    /\ decimalSeparator \in {DOT, COMMA}
    /\ rows = <<>>
    /\ text = <<>>
    /\ overrides = [delimiter |-> "auto", decimal |-> "auto", hasHeader |-> "auto"]
    /\ commentHeaderLine = Null
    /\ dataLines = <<>>
    /\ commentLinesSkipped = 0
    /\ delimiter = ""
    /\ commentIsHeader = FALSE
    /\ hasHeaderDetected = FALSE
    /\ headerNames = <<>>
    /\ rowLines = <<>>
    /\ columns = <<>>
    /\ warnings = <<>>
    /\ error = NoError
    /\ lastIndex = FreshLastIndex
    /\ history = {}
    /\ ValidatorIdle
    /\ ClientIdle
    /\ RangeIdle

ConvertCells ==
    /\ pc = "convert"
    /\ pc' = "converted"
    /\ rows' = ConvertValues(tokenized, decimalSeparator)
    /\ UNCHANGED <<lastIndex, history>>
    /\ UNCHANGED <<text, overrides, commentHeaderLine, dataLines,
                   commentLinesSkipped, delimiter, decimalSeparator,
                   commentIsHeader, hasHeaderDetected, headerNames, rowLines,
                   tokenized, columns, warnings, error>>
    /\ UNCHANGED validatorVars
    /\ UNCHANGED clientVars
    /\ UNCHANGED rangeVars

NextConvert == ConvertCells

SpecConvert == InitConvert /\ [][NextConvert]_vars

(***************************************************************************)
(* parseCSV on tables: texts of at most MaxLines lines, each one of        *)
(* LineKinds, given by the number of lines of each kind, in the order of   *)
(* the kinds or in the reverse order.  The delimiter and the decimal       *)
(* separator are detected, the header setting is any of the three.         *)
(***************************************************************************)
MaxLines == 10

LineKinds ==
    << <<"1", COMMA, "1">>,
       <<"a", COMMA, "1">>,
       <<"a", COMMA, "a">>,
       <<COMMA, "1">>,
       DateCell.s \o <<COMMA, "1">>,
       <<"1">> >>

LineCensuses(maxLines) == Censuses(Len(LineKinds), maxLines)

RECURSIVE CensusLines(_, _)
CensusLines(c, k) ==
    IF k > Len(LineKinds) THEN <<>>
    ELSE [i \in 1..c[k] |-> LineKinds[k]] \o CensusLines(c, k + 1)

Reverse(seq) == [i \in 1..Len(seq) |-> seq[Len(seq) + 1 - i]]

TableTexts(maxLines) ==
    UNION {{join(CensusLines(c, 1), LF), join(Reverse(CensusLines(c, 1)), LF)} :
                c \in LineCensuses(maxLines)}

TableOverrides ==
    [delimiter : {"auto"}, decimal : {"auto"},
     hasHeader : {"auto", "true", "false"}]

InitTable ==
    /\ pc = "start"
    /\ text \in TableTexts(MaxLines)
    /\ overrides \in TableOverrides
    /\ commentHeaderLine = Null
    /\ dataLines = <<>>
    /\ commentLinesSkipped = 0
    /\ delimiter = ""
    /\ decimalSeparator = ""
    /\ commentIsHeader = FALSE
    /\ hasHeaderDetected = FALSE
    /\ headerNames = <<>>
    /\ rowLines = <<>>
    /\ tokenized = <<>>
    /\ rows = <<>>
    /\ columns = <<>>
    /\ warnings = <<>>
    /\ error = NoError
    /\ lastIndex = FreshLastIndex
    /\ history = {}
    /\ ValidatorIdle
    /\ ClientIdle
    /\ RangeIdle

NextTable == ParseCSV

SpecTable == InitTable /\ [][NextTable]_vars

(***************************************************************************)
(* preprocessLines on its own, as its tests call it.  A text is at most    *)
(* MaxPreLines lines, each one of PreLineKinds, joined by line breaks that *)
(* follow one of LineBreakPatterns.                                        *)
(***************************************************************************)
MaxPreLines == 4

\* Two comments, two data lines, an empty line and a blank one.
PreLineKinds ==
    {<<HASH>>, <<SPACE, HASH, "a">>, <<"a">>, <<"a", HASH>>, <<>>, <<SPACE>>}

\* The line breaks of a text, repeated from the first when they run out.
LineBreakPatterns ==
    {<< <<LF>> >>, << <<CR>> >>, << <<CR, LF>> >>,
     << <<CR, LF>>, <<LF>>, <<CR>> >>}

RECURSIVE joinWith(_, _, _)
joinWith(lines, breaks, i) ==
    IF i > Len(lines) THEN <<>>
    ELSE IF i = Len(lines) THEN lines[i]
    ELSE lines[i] \o breaks[((i - 1) % Len(breaks)) + 1]
                  \o joinWith(lines, breaks, i + 1)

PreTexts(maxLines) ==
    {joinWith(ls, breaks, 1) :
        ls \in UNION {[1..n -> PreLineKinds] : n \in 0..maxLines},
        breaks \in LineBreakPatterns}

InitPreprocess ==
    /\ pc = "preprocess"
    /\ text \in PreTexts(MaxPreLines)
    /\ overrides = [delimiter |-> "auto", decimal |-> "auto", hasHeader |-> "auto"]
    /\ commentHeaderLine = Null
    /\ dataLines = <<>>
    /\ commentLinesSkipped = 0
    /\ delimiter = ""
    /\ decimalSeparator = ""
    /\ commentIsHeader = FALSE
    /\ hasHeaderDetected = FALSE
    /\ headerNames = <<>>
    /\ rowLines = <<>>
    /\ tokenized = <<>>
    /\ rows = <<>>
    /\ columns = <<>>
    /\ warnings = <<>>
    /\ error = NoError
    /\ lastIndex = FreshLastIndex
    /\ history = {}
    /\ ValidatorIdle
    /\ ClientIdle
    /\ RangeIdle

PreprocessLines ==
    /\ pc = "preprocess"
    /\ \E pre \in {preprocessLines(text)} :
        /\ commentHeaderLine' = pre.commentHeaderLine
        /\ dataLines' = pre.dataLines
        /\ commentLinesSkipped' = pre.commentLinesSkipped
    /\ pc' = "preprocessed"
    /\ UNCHANGED <<lastIndex, history>>
    /\ UNCHANGED <<text, overrides, delimiter, decimalSeparator,
                   commentIsHeader, hasHeaderDetected, headerNames, rowLines,
                   tokenized, rows, columns, warnings, error>>
    /\ UNCHANGED validatorVars
    /\ UNCHANGED clientVars
    /\ UNCHANGED rangeVars

NextPreprocess == PreprocessLines

SpecPreprocess == InitPreprocess /\ [][NextPreprocess]_vars

(***************************************************************************)
(* parseCSV called again and again in one server process: the module-level *)
(* DATE_PATTERNS live on from call to call, the locals of parseCSV do not. *)
(* The texts have at most two lines, each a header-like line, a line with  *)
(* a date, or a one-column line.                                           *)
(***************************************************************************)
MaxCalls == 3

RepeatKinds == {LineKinds[2], LineKinds[5], LineKinds[6]}

RepeatTexts ==
    {join(ls, LF) : ls \in UNION {[1..n -> RepeatKinds] : n \in 0..2}}

RepeatOverrides ==
    [delimiter : {"auto"}, decimal : {"auto"}, hasHeader : {"auto", "false"}]

\* Step 9 of parseCSV: the object it returns.
Result ==
    [columns |-> columns,
     data |-> rows,
     rowCount |-> Len(rows),
     preview |-> SubSeq(rows, 1, Min(20, Len(rows))),
     warnings |-> warnings,
     metadata |-> [delimiter |-> delimiter,
                   decimalSeparator |-> decimalSeparator,
                   hasHeader |-> hasHeaderDetected,
                   commentLinesSkipped |-> commentLinesSkipped,
                   originalFileName |-> Null]]

\* What the caller of a finished parseCSV gets: the error thrown or the
\* object returned.
Outcome ==
    IF error # NoError THEN [thrown |-> TRUE, value |-> error]
    ELSE [thrown |-> FALSE, value |-> Result]

InitRepeat ==
    /\ pc = "start"
    /\ text \in RepeatTexts
    /\ overrides \in RepeatOverrides
    /\ commentHeaderLine = Null
    /\ dataLines = <<>>
    /\ commentLinesSkipped = 0
    /\ delimiter = ""
    /\ decimalSeparator = ""
    /\ commentIsHeader = FALSE
    /\ hasHeaderDetected = FALSE
    /\ headerNames = <<>>
    /\ rowLines = <<>>
    /\ tokenized = <<>>
    /\ rows = <<>>
    /\ columns = <<>>
    /\ warnings = <<>>
    /\ error = NoError
    /\ lastIndex = FreshLastIndex
    /\ history = {}
    /\ ValidatorIdle
    /\ ClientIdle
    /\ RangeIdle

\* The next request reaches the route: the finished call is remembered and
\* parseCSV starts again with fresh locals on another buffer and other
\* overrides.  The module is not reloaded.
NextCall ==
    /\ pc = "done"
    /\ Cardinality(history) < MaxCalls - 1
    /\ history' = history \cup {[text |-> text, overrides |-> overrides,
                                 outcome |-> Outcome]}
    /\ pc' = "start"
    /\ text' \in RepeatTexts
    /\ overrides' \in RepeatOverrides
    /\ commentHeaderLine' = Null
    /\ dataLines' = <<>>
    /\ commentLinesSkipped' = 0
    /\ delimiter' = ""
    /\ decimalSeparator' = ""
    /\ commentIsHeader' = FALSE
    /\ hasHeaderDetected' = FALSE
    /\ headerNames' = <<>>
    /\ rowLines' = <<>>
    /\ tokenized' = <<>>
    /\ rows' = <<>>
    /\ columns' = <<>>
    /\ warnings' = <<>>
    /\ error' = NoError
    /\ UNCHANGED lastIndex
    /\ UNCHANGED validatorVars
    /\ UNCHANGED clientVars
    /\ UNCHANGED rangeVars

NextRepeat == ParseCSV \/ NextCall

SpecRepeat == InitRepeat /\ [][NextRepeat]_vars

(***************************************************************************)
(* validateFile on its own, as its tests call it: on no file, and on files *)
(* whose buffer has up to MaxBufferLength bytes with zero bytes at the     *)
(* start, around the end of the sample and at the end.  The size is that   *)
(* of the buffer or, as in the tests, a number of its own.                 *)
(***************************************************************************)
MaxBufferLength == 1026

FileNames ==
    {<<"a", DOT, "c", "s", "v">>, <<"A", DOT, "C", "S", "V">>,
     <<"a", DOT, "C", "s", "v">>, <<"a", DOT, "t", "x", "t">>,
     <<"c", "s", "v">>, <<"a", DOT, "c", "s", "v", "x">>,
     <<DOT, "c", "s", "v">>}

MimeTypes ==
    VALID_MIMETYPES \cup {"image/png", "application/octet-stream", "TEXT/CSV", ""}

Buffers(maxLength) ==
    {[length |-> n, zeros |-> zs] :
        n \in {0, 1, SampleBytes - 1, SampleBytes, SampleBytes + 1, maxLength},
        zs \in SUBSET {0, SampleBytes - 1, SampleBytes, maxLength - 1}}

Files(maxLength) ==
    {f \in [size : {0, 1, 100} \cup {b.length : b \in Buffers(maxLength)},
            mimetype : MimeTypes,
            originalname : FileNames,
            buffer : {b \in Buffers(maxLength) :
                        \A z \in b.zeros : z < b.length}] :
        f.size \in {0, 100, f.buffer.length}}

InitValidate ==
    /\ pc = "validate"
    /\ file \in {Null, Undefined} \cup Files(MaxBufferLength)
    /\ validation = Null
    /\ ParserIdle
    /\ ClientIdle
    /\ RangeIdle

ValidateFile ==
    /\ pc = "validate"
    /\ validation' = validateFile(file)
    /\ pc' = "validated"
    /\ UNCHANGED file
    /\ UNCHANGED parserVars
    /\ UNCHANGED clientVars
    /\ UNCHANGED rangeVars

NextValidate == ValidateFile

SpecValidate == InitValidate /\ [][NextValidate]_vars

(***************************************************************************)
(* autoDetectDelimiter on lines given by their counts: a line holds up to  *)
(* MaxCount tabs, then up to MaxCount semicolons, then up to MaxCount      *)
(* commas, and one or two such lines are sampled.                          *)
(***************************************************************************)
MaxCount == 3

Repeat(ch, n) == [i \in 1..n |-> ch]

CountedLines(maxCount) ==
    {Repeat(TAB, t) \o Repeat(SEMICOLON, sc) \o Repeat(COMMA, c) :
        t \in 0..maxCount, sc \in 0..maxCount, c \in 0..maxCount}

CountedLists(maxCount) ==
    UNION {[1..n -> CountedLines(maxCount)] : n \in 0..2}

InitVariance ==
    /\ pc = "detect"
    /\ dataLines \in CountedLists(MaxCount)
    /\ text = <<>>
    /\ overrides = [delimiter |-> "auto", decimal |-> "auto", hasHeader |-> "auto"]
    /\ commentHeaderLine = Null
    /\ commentLinesSkipped = 0
    /\ delimiter = ""
    /\ decimalSeparator = ""
    /\ commentIsHeader = FALSE
    /\ hasHeaderDetected = FALSE
    /\ headerNames = <<>>
    /\ rowLines = <<>>
    /\ tokenized = <<>>
    /\ rows = <<>>
    /\ columns = <<>>
    /\ warnings = <<>>
    /\ error = NoError
    /\ lastIndex = FreshLastIndex
    /\ history = {}
    /\ ValidatorIdle
    /\ ClientIdle
    /\ RangeIdle

NextVariance == AutoDetectDelimiter

SpecVariance == InitVariance /\ [][NextVariance]_vars

(***************************************************************************)
(* autoDetectDelimiter on two lists of lines that agree on their first     *)
(* five lines: the delimiter of a list of at most MaxSampleLines lines is  *)
(* remembered and the detector runs again on a list with other lines       *)
(* after the fifth.                                                        *)
(***************************************************************************)
MaxSampleLines == 7

SampleLineKinds == {<<"1", COMMA, "1">>, <<"1", SEMICOLON, "1">>,
                    <<"1", COMMA, "1", SEMICOLON, SEMICOLON>>}

SampleLists(maxLines) ==
    UNION {[1..n -> SampleLineKinds] : n \in 0..maxLines}

\* dataLines.slice(0, 5) of the caller's point of view: the lines a later
\* list has to share.
FirstLines(lines, n) == SubSeq(lines, 1, Min(n, Len(lines)))

InitSample ==
    /\ pc = "detect"
    /\ dataLines \in SampleLists(MaxSampleLines)
    /\ text = <<>>
    /\ overrides = [delimiter |-> "auto", decimal |-> "auto", hasHeader |-> "auto"]
    /\ commentHeaderLine = Null
    /\ commentLinesSkipped = 0
    /\ delimiter = ""
    /\ decimalSeparator = ""
    /\ commentIsHeader = FALSE
    /\ hasHeaderDetected = FALSE
    /\ headerNames = <<>>
    /\ rowLines = <<>>
    /\ tokenized = <<>>
    /\ rows = <<>>
    /\ columns = <<>>
    /\ warnings = <<>>
    /\ error = NoError
    /\ lastIndex = FreshLastIndex
    /\ history = {}
    /\ ValidatorIdle
    /\ ClientIdle
    /\ RangeIdle

\* The detector is called on another list with the same first five lines.
NextSample ==
    /\ pc = "detected"
    /\ history = {}
    /\ history' = {[dataLines |-> dataLines, delimiter |-> delimiter]}
    /\ dataLines' \in
            IF Len(dataLines) < 5 THEN {dataLines}
            ELSE {FirstLines(dataLines, 5) \o later :
                    later \in SampleLists(MaxSampleLines - 5)}
    /\ delimiter' = ""
    /\ pc' = "detect"
    /\ UNCHANGED <<text, overrides, commentHeaderLine, commentLinesSkipped,
                   decimalSeparator, commentIsHeader, hasHeaderDetected,
                   headerNames, rowLines, tokenized, rows, columns, warnings,
                   error, lastIndex>>
    /\ UNCHANGED validatorVars
    /\ UNCHANGED clientVars
    /\ UNCHANGED rangeVars

NextSampled == AutoDetectDelimiter \/ NextSample

SpecSample == InitSample /\ [][NextSampled]_vars

(***************************************************************************)
(* The uploads of the client: files are dropped, samples are clicked and   *)
(* settings are applied, at most MaxUploads times in all, and the          *)
(* responses arrive in any order.                                          *)
(***************************************************************************)
InitClient ==
    /\ pc = "client"
    /\ ClientIdle
    /\ ParserIdle
    /\ ValidatorIdle
    /\ RangeIdle

NextUpload ==
    \/ \E f \in ClientFiles : HandleFileSelect(f)
    \/ \E sample \in SAMPLE_FILES : HandleSampleSelect(sample)
    \/ \E sample \in SAMPLE_FILES : SampleFetched(sample)
    \/ \E newSettings \in ClientSettings : HandleSettingsApply(newSettings)
    \/ \E r \in requests : HandleResponse(r)
    \/ \E r \in requests : HandleNetworkError(r)

SpecUpload == InitClient /\ [][NextUpload]_vars

(***************************************************************************)
(* The column selection: files are dropped and settings applied as above,  *)
(* and between the responses the user changes the X column, toggles Y      *)
(* columns, selects all, plots a string column anyway and undoes that.     *)
(***************************************************************************)
SelectionFiles == {File("mixed.csv"), File("TestData1.csv")}

\* The column indices of the widest table.
ColumnIndices == 0..3

NextSelection ==
    \/ \E f \in SelectionFiles : HandleFileSelect(f)
    \/ \E newSettings \in ClientSettings : HandleSettingsApply(newSettings)
    \/ \E r \in requests : HandleResponse(r)
    \/ \E newX \in ColumnIndices : HandleXChange(newX)
    \/ \E colIndex \in ColumnIndices : HandleYToggle(colIndex)
    \/ HandleSelectAll
    \/ \E colIndex \in ColumnIndices : HandleOverride(colIndex)
    \/ \E colIndex \in ColumnIndices : HandleUndoOverride(colIndex)

SpecSelection == InitClient /\ [][NextSelection]_vars

(***************************************************************************)
(* The row range of ChartView: data of several sizes come and go, the      *)
(* panel is opened and closed, values are typed and committed, the presets *)
(* are clicked, and the slider is clicked and dragged, also while the data *)
(* changes under a drag.                                                   *)
(***************************************************************************)
DatasetSizes == {1, 500, 600}

TypedInputs == {<<"x">>, <<"0">>, <<"9", "9", "9">>}

SliderStops == {300, 600}

Deltas == {-700, 700}

InitRange ==
    /\ pc = "chart"
    /\ ParserIdle
    /\ ValidatorIdle
    /\ ClientIdle
    /\ RangeIdle

NextRange ==
    \/ \E n \in DatasetSizes : NewData(n)
    \/ Unmount
    \/ RangeToggle
    \/ \E input \in {"from", "to"} : Focus(input)
    \/ \E val \in TypedInputs : TypeFrom(val)
    \/ \E val \in TypedInputs : TypeTo(val)
    \/ CommitFrom
    \/ CommitTo
    \/ PresetFirst
    \/ PresetLast
    \/ PresetAll
    \/ \E val \in TrackValues(SliderStops) : HandleTrackDown(val)
    \/ \E type \in {"from", "to", "bar"} : HandleDown(type)
    \/ \E val \in TrackValues(SliderStops) : HandleMoveHandle(val)
    \/ \E deltaVal \in Deltas : HandleMoveBar(deltaVal)
    \/ HandleUp

SpecRange == InitRange /\ [][NextRange]_vars

(***************************************************************************)
(* The properties.                                                         *)
(***************************************************************************)
IsDataLine(l) == trimStart(l) # <<>> /\ Head(trimStart(l)) # HASH

\* The lines of t that are neither blank nor comments.
DataLinesOf(t) == SelectSeq(splitLines(t), IsDataLine)

OnlyCommentsOrBlank(t) == DataLinesOf(t) = <<>>

\* C1: a text whose non-blank lines are all comments, or that has no
\* non-blank line, makes parseCSV throw NO_DATA without metadata, whatever
\* the overrides, before a delimiter, a decimal separator or a header is
\* resolved.
C1_NoDataForCommentOnlyText ==
    pc = "done" /\ OnlyCommentsOrBlank(text) =>
        /\ error = ParseError("NO_DATA", Null)
        /\ delimiter = "" /\ decimalSeparator = "" /\ headerNames = <<>>

C1_Witness ==
    /\ pc = "done"
    /\ \E i, j, k \in 1..Len(text) :
            text[i] = HASH /\ text[j] = LF /\ text[k] = TAB
    /\ OnlyCommentsOrBlank(text)
    /\ overrides.delimiter = SEMICOLON /\ overrides.hasHeader = "false"
    /\ error.code = "NO_DATA"

\* C2: with exactly one data line, no comment header adopted and hasHeader
\* auto or 'true', parseCSV detects a header and throws NO_DATA_ROWS with
\* hasHeader = true in the metadata, also when the line has one field.
C2_SingleDataLineIsHeaderOnly ==
    /\ pc = "done"
    /\ Len(DataLinesOf(text)) = 1
    /\ ~commentIsHeader
    /\ overrides.hasHeader \in {"auto", "true"}
    => /\ hasHeaderDetected
       /\ error.name = "ParseError"
       /\ error.code = "NO_DATA_ROWS"
       /\ error.metadata.hasHeader = TRUE

C2_Witness ==
    /\ pc = "done"
    /\ Len(DataLinesOf(text)) = 1
    /\ commentLinesSkipped > 0
    /\ ~commentIsHeader
    /\ overrides.hasHeader = "auto"
    /\ Len(headerNames) = 1
    /\ isNumericCell(headerNames[1], decimalSeparator)
    /\ error.code = "NO_DATA_ROWS"

\* C3: parseCSV never returns a table that has a header and no row.
C3_NoEmptyTableWithHeader ==
    pc = "done" /\ error = NoError => ~(hasHeaderDetected /\ Len(rows) = 0)

\* C4: parseCSV throws TOO_FEW_COLUMNS exactly when there is a data line,
\* there is a row line and the header has fewer than 2 fields; a table that
\* is returned has at least 2 columns.
C4_TooFewColumnsExactly ==
    pc = "done" =>
        /\ error.code = "TOO_FEW_COLUMNS" <=>
                /\ Len(DataLinesOf(text)) > 0
                /\ Len(rowLines) > 0
                /\ Len(headerNames) < 2
        /\ error = NoError => Len(columns) >= 2

C4_Witness ==
    /\ pc = "done"
    /\ error.code = "TOO_FEW_COLUMNS"
    /\ Len(rows) > 1
    /\ hasHeaderDetected

\* C5: in a returned table every row has one cell per column, each cell is
\* a number, a string or null, and the rows are as many as the tokenized
\* rows that have as many fields as the header.
C5_RowsMatchColumns ==
    pc = "done" /\ error = NoError =>
        /\ \A r \in 1..Len(rows) :
                /\ Len(rows[r]) = Len(columns)
                /\ \A c \in 1..Len(rows[r]) :
                        rows[r][c].type \in {"number", "string", "null"}
        /\ Len(rows) = Cardinality({i \in 1..Len(tokenized) :
                            Len(tokenized[i]) = Len(columns)})

C5_Witness ==
    /\ pc = "done" /\ error = NoError
    /\ Len(rows) > 0 /\ Len(rows) < Len(tokenized)
    /\ \E c \in 1..Len(rows[1]) : rows[1][c].type = "number"
    /\ \E c \in 1..Len(rows[1]) : rows[1][c].type = "null"

\* ch has the same non-zero count in every sampled line.
IsConsistent(lines, ch) ==
    /\ Len(lines) > 0
    /\ CountChar(lines[1], ch) > 0
    /\ \A i \in 1..Min(SampleSize, Len(lines)) :
            CountChar(lines[i], ch) = CountChar(lines[1], ch)

\* C6: when a candidate is consistent, autoDetectDelimiter returns the first
\* consistent one in the order TAB, SEMICOLON, COMMA.
C6_FirstConsistentCandidateWins ==
    pc = "detected" =>
        /\ IsConsistent(dataLines, TAB) => delimiter = TAB
        /\ (~IsConsistent(dataLines, TAB) /\ IsConsistent(dataLines, SEMICOLON))
                => delimiter = SEMICOLON
        /\ (~IsConsistent(dataLines, TAB) /\ ~IsConsistent(dataLines, SEMICOLON)
                /\ IsConsistent(dataLines, COMMA))
                => delimiter = COMMA

C6_Witness ==
    /\ pc = "detected"
    /\ Len(dataLines) >= 2
    /\ ~IsConsistent(dataLines, TAB)
    /\ IsConsistent(dataLines, SEMICOLON)
    /\ IsConsistent(dataLines, COMMA)
    /\ \E i \in 1..Len(dataLines) : CountChar(dataLines[i], TAB) > 0
    /\ delimiter = SEMICOLON

\* C7: with the decimal setting on auto, the decimal separator is COMMA when
\* the delimiter in use is SEMICOLON and DOT for every other delimiter.
C7_DecimalFollowsDelimiter ==
    pc = "done" /\ overrides.decimal = "auto" /\ DataLinesOf(text) # <<>> =>
        /\ decimalSeparator \in {COMMA, DOT}
        /\ decimalSeparator = COMMA <=> delimiter = SEMICOLON

C7_Witness ==
    /\ pc = "done"
    /\ overrides.decimal = "auto" /\ overrides.delimiter = "auto"
    /\ delimiter = SEMICOLON /\ decimalSeparator = COMMA
    /\ error = NoError
    /\ \E r \in 1..Len(rows) : \E c \in 1..Len(rows[r]) :
            rows[r][c].type = "number" /\ rows[r][c].scale > 0

\* A field is numeric: not blank and, commas replaced by dots when the
\* decimal separator is COMMA, a number.
IsNumericField(field, decimalSep) ==
    /\ trim(field) # <<>>
    /\ Number(IF decimalSep = COMMA THEN replaceAll(field, COMMA, DOT) ELSE field)
            # NaN

NumericFields(line, delim, decimalSep) ==
    Cardinality({i \in 1..Len(split(line, delim)) :
                    IsNumericField(split(line, delim)[i], decimalSep)})

StripCommentMarker(line) == trimStart(Tail(trimStart(line)))

\* C9: the comment line is adopted as the header only if, its '#' stripped,
\* it has as many delimiter-separated fields as the first data line.
C9_CommentHeaderOnlyOnFieldCountMatch ==
    pc = "done" /\ commentIsHeader =>
        /\ commentHeaderLine # Null
        /\ Len(split(StripCommentMarker(commentHeaderLine.s), delimiter))
                = Len(split(DataLinesOf(text)[1], delimiter))

\* 'Column i' for i below 10.
ColumnLabel(i) == <<"C", "o", "l", "u", "m", "n", " ", Digits[i + 1]>>

\* C10: the row lines are all data lines when the comment line is the
\* header; all data lines when there is no header, the names being
\* 'Column 1' .. 'Column n' for the n fields of the first data line; the data
\* lines after the first when the first is the header, its trimmed fields
\* being the names.
C10_RowLinesAndNames ==
    pc = "done" =>
        \A lines \in {DataLinesOf(text)} :
            lines # <<>> =>
                \A first \in {split(lines[1], delimiter)} :
                    /\ commentIsHeader => rowLines = lines
                    /\ ~commentIsHeader /\ ~hasHeaderDetected =>
                            /\ rowLines = lines
                            /\ headerNames =
                                    [i \in 1..Len(first) |-> ColumnLabel(i)]
                    /\ ~commentIsHeader /\ hasHeaderDetected =>
                            /\ rowLines = Tail(lines)
                            /\ headerNames =
                                    [i \in 1..Len(first) |-> trim(first[i])]

C10_Witness ==
    /\ pc = "done" /\ error = NoError
    /\ commentHeaderLine # Null
    /\ ~commentIsHeader /\ ~hasHeaderDetected
    /\ Len(headerNames) = 2
    /\ Len(rows) = 1

\* C11: when overrides.hasHeader is 'true' or 'false', hasHeader of the
\* metadata is that value; with 'false' the names are 'Column 1' ..
\* 'Column n' and every data line is a row line; with 'true' the first data
\* line gives the names and the row lines are the data lines after it.
C11_HasHeaderOverrideWins ==
    /\ pc = "done"
    /\ DataLinesOf(text) # <<>>
    /\ overrides.hasHeader \in {"true", "false"}
    => LET lines == DataLinesOf(text)
           first == split(lines[1], delimiter)
       IN  /\ hasHeaderDetected = (overrides.hasHeader = "true")
           /\ error.code \in {"NO_DATA_ROWS", "TOO_FEW_COLUMNS"} =>
                    error.metadata.hasHeader = (overrides.hasHeader = "true")
           /\ overrides.hasHeader = "false" =>
                    /\ rowLines = lines
                    /\ headerNames = [i \in 1..Len(first) |-> ColumnLabel(i)]
           /\ overrides.hasHeader = "true" =>
                    /\ rowLines = Tail(lines)
                    /\ headerNames = [i \in 1..Len(first) |-> trim(first[i])]

\* A string cell of rs holds the character ch.
HasCharInStringCell(rs, ch) ==
    \E r \in 1..Len(rs) : \E c \in 1..Len(rs[r]) :
        rs[r][c].type = "string" /\ CountChar(rs[r][c].s, ch) > 0

\* C12: a delimiter or decimal override other than absent or 'auto' is the
\* delimiter or decimal separator of the metadata, also of an error's
\* metadata, and the one the later steps use: the tokenized rows are the
\* row lines split on it, and commas are rewritten exactly under the decimal
\* separator in force.  An absent or 'auto' field gives the detector's
\* result.
C12_ExplicitOverridesAreUsed ==
    pc = "done" /\ DataLinesOf(text) # <<>> =>
        LET lines == DataLinesOf(text)
            autoDelimiter == overrides.delimiter \in {"", "auto"}
            autoDecimal == overrides.decimal \in {"", "auto"}
        IN  /\ ~autoDelimiter => delimiter = overrides.delimiter
            /\ autoDelimiter => delimiter = autoDetectDelimiter(lines)
            /\ ~autoDecimal => decimalSeparator = overrides.decimal
            /\ autoDecimal =>
                    decimalSeparator = IF delimiter = SEMICOLON THEN COMMA ELSE DOT
            /\ error.code \in {"NO_DATA_ROWS", "TOO_FEW_COLUMNS"} =>
                    /\ error.metadata.delimiter = delimiter
                    /\ error.metadata.decimalSeparator = decimalSeparator
            /\ \A i \in 1..Len(tokenized) :
                    /\ \E j \in 1..Len(rowLines) :
                            rowLines[j] = join(tokenized[i], delimiter)
                    /\ \A c \in 1..Len(tokenized[i]) :
                            CountChar(tokenized[i][c], delimiter) = 0
            /\ decimalSeparator = COMMA => ~HasCharInStringCell(rows, COMMA)

C12_Witness ==
    /\ pc = "done" /\ error = NoError
    /\ overrides.delimiter = SEMICOLON
    /\ autoDetectDelimiter(dataLines) = COMMA
    /\ overrides.decimal = ""
    /\ decimalSeparator = COMMA
    /\ Len(headerNames) = 2

\* The number of rows of rs whose cell in column c is in the set S.
CellsIn(rs, c, S) == Cardinality({r \in 1..Len(rs) : rs[r][c] \in S})

\* C13: with n the number of cells of a column that are not null (nor
\* undefined), num the number of its finite numbers and dat the number of
\* its date strings, the column is numeric iff n > 0 and 10 * num >= 9 * n,
\* else date iff n > 0 and 5 * dat >= 4 * n, else string; numericCount and
\* nonNullCount are num and n.  So 90 numbers of 100 are numeric, 89 of 100
\* are string, and null cells change nothing.
C13_TypeThresholds ==
    pc = "inferred" =>
        \A i \in 1..Len(columns) :
            LET n == Len(rows) - CellsIn(rows, i, {Null, Undefined})
                num == CellsIn(rows, i, {NumberCell})
                dat == CellsIn(rows, i, {DateCell})
            IN  /\ columns[i].nonNullCount = n
                /\ columns[i].numericCount = num
                /\ columns[i].type =
                        IF n > 0 /\ 10 * num >= 9 * n THEN "numeric"
                        ELSE IF n > 0 /\ 5 * dat >= 4 * n THEN "date"
                        ELSE "string"

C13_Witness ==
    /\ pc = "inferred"
    /\ Len(rows) = PercentRows + 1
    /\ CellsIn(rows, 1, {Null}) = 1
    /\ columns[1].nonNullCount = 100
    /\ columns[1].numericCount = 89
    /\ columns[1].type = "string"

\* The cell that step 7 receives: the cell with its commas rewritten when
\* the decimal separator is COMMA.
CellBeforeConversion ==
    LET cell == tokenized[1][1]
    IN  IF decimalSeparator = COMMA /\ cell.type = "string"
        THEN Str(replaceAll(cell.s, COMMA, DOT))
        ELSE cell

\* C14 as claimed: the conversion of a cell gives null for null, undefined
\* and a blank string, the number for a string whose trimmed form is a
\* number, and the string itself, unchanged, for any other string.
C14_ConversionKeepsOriginalString ==
    pc = "converted" =>
        LET cell == CellBeforeConversion
            out == rows[1][1]
        IN  IF cell \in {Null, Undefined} THEN out = Null
            ELSE IF trim(cell.s) = <<>> THEN out = Null
            ELSE IF Number(trim(cell.s)) # NaN THEN out = Number(trim(cell.s))
            ELSE out = cell

\* C14 amended: as above, but any other string gives its trimmed form.
C14_ConversionKeepsTrimmedString ==
    pc = "converted" =>
        LET cell == CellBeforeConversion
            out == rows[1][1]
        IN  /\ out.type \in {"null", "number", "string"}
            /\ IF cell \in {Null, Undefined} THEN out = Null
               ELSE IF trim(cell.s) = <<>> THEN out = Null
               ELSE IF Number(trim(cell.s)) # NaN THEN out = Number(trim(cell.s))
               ELSE out = Str(trim(cell.s))

C14_Witness ==
    /\ pc = "converted"
    /\ tokenized[1][1] = Str(<<SPACE, "1", "a", SPACE>>)
    /\ rows[1][1] = Str(<<"1", "a">>)

\* What step 7 makes of the text s.
ConvertedText(s) ==
    IF trim(s) = <<>> THEN Null
    ELSE IF Number(trim(s)) # NaN THEN Number(trim(s))
    ELSE Str(trim(s))

\* C15: under the decimal separator COMMA a string cell is converted with
\* every comma replaced by a dot, under any other separator it is converted
\* as it is: the commas of a cell that stays a string are still there.  The
\* cell '-1930,532345' is the number -1930.532345 under COMMA and the same
\* string under DOT.
C15_CommaRewriteIffDecimalComma ==
    pc = "converted" /\ tokenized[1][1].type = "string" =>
        LET s == tokenized[1][1].s
            out == rows[1][1]
        IN  /\ decimalSeparator = COMMA =>
                    /\ out = ConvertedText(replaceAll(s, COMMA, DOT))
                    /\ out.type = "string" => CountChar(out.s, COMMA) = 0
            /\ decimalSeparator # COMMA =>
                    /\ out = ConvertedText(s)
                    /\ out.type = "string" =>
                            CountChar(out.s, COMMA) = CountChar(s, COMMA)
            /\ s = SampleCell =>
                    out = IF decimalSeparator = COMMA
                          THEN [type |-> "number", mant |-> -1930532345, scale |-> 6]
                          ELSE Str(SampleCell)

C15_Witness ==
    /\ pc = "converted"
    /\ decimalSeparator = COMMA
    /\ tokenized[1][1] = Str(SampleCell)
    /\ rows[1][1].type = "number"
    /\ rows[1][1].scale = 6

\* The positions of the warnings with the key k.
WarningsWithKey(k) == {w \in 1..Len(warnings) : warnings[w].key = k}

\* The tokenized rows whose field count is not the header's.
RaggedRows == {i \in 1..Len(tokenized) : Len(tokenized[i]) # Len(headerNames)}

\* C16: a returned result has one ragged-row warning when a tokenized row
\* has a field count other than the header's and none otherwise; the
\* warning's count is the number of such rows, and the rows returned plus
\* that number are the tokenized rows.
C16_RaggedWarningCountsDroppedRows ==
    pc = "done" /\ error = NoError =>
        \A ragged \in {Cardinality(RaggedRows)} :
            /\ Cardinality(WarningsWithKey("warningRaggedRows"))
                    = IF ragged > 0 THEN 1 ELSE 0
            /\ \A w \in WarningsWithKey("warningRaggedRows") :
                    warnings[w].params.count = ragged
            /\ Len(rows) + ragged = Len(tokenized)

C16_Witness ==
    /\ pc = "done" /\ error = NoError
    /\ Len(rows) > 0
    /\ Cardinality(RaggedRows) > 0
    /\ WarningsWithKey("warningRaggedRows") # {}

\* The warnings with the key k, in their order.
WarningsOfKey(k) ==
    FilterIdx(warnings, WarningsWithKey(k), 1)

\* The columns that satisfy P, in their order.
ColumnsWhere(P(_)) ==
    FilterIdx(columns, {i \in 1..Len(columns) : P(columns[i])}, 1)

HasMissing(col) == col.nonNullCount < Len(rows)

\* C17: in a returned result the index of a column is its position, and
\* 0 <= numericCount <= nonNullCount <= rowCount whatever the type;
\* nonNullCount is the number of cells of the column that are not null.  The
\* missing-values warnings are, in the order of the columns, one for each
\* column with nonNullCount < rowCount, with that column's name and the
\* count rowCount - nonNullCount.
C17_DescriptorCountsAndMissingValues ==
    pc = "done" /\ error = NoError =>
        /\ \A i \in 1..Len(columns) :
                /\ columns[i].index = i - 1
                /\ 0 <= columns[i].numericCount
                /\ columns[i].numericCount <= columns[i].nonNullCount
                /\ columns[i].nonNullCount <= Len(rows)
                /\ columns[i].nonNullCount =
                        Cardinality({r \in 1..Len(rows) : rows[r][i] # Null})
        /\ \A ws \in {WarningsOfKey("warningMissingValues")} :
           \A cs \in {ColumnsWhere(HasMissing)} :
               /\ Len(ws) = Len(cs)
               /\ \A k \in 1..Len(ws) :
                    /\ ws[k].params.column = cs[k].name
                    /\ ws[k].params.count = Len(rows) - cs[k].nonNullCount

C17_Witness ==
    /\ pc = "done" /\ error = NoError
    /\ Len(rows) = 2
    /\ columns[1].type = "numeric" /\ columns[1].nonNullCount = 2
    /\ columns[2].type = "string" /\ columns[2].nonNullCount = 0
    /\ Len(WarningsOfKey("warningMissingValues")) = 1
    /\ WarningsOfKey("warningMissingValues")[1].params.count = 2

\* The number of string cells of the column col in the rows.
StringCells(col) ==
    Cardinality({r \in 1..Len(rows) : rows[r][col.index + 1].type = "string"})

NumericWithStrings(col) == col.type = "numeric" /\ StringCells(col) > 0

\* C18: the unparseable-values warnings of a returned result are, in the
\* order of the columns, one for each numeric column that holds a string
\* cell, with the column's name and the number of its string cells; a date
\* or string column has none.
C18_UnparseableOnlyInNumericColumns ==
    pc = "done" /\ error = NoError =>
        \A ws \in {WarningsOfKey("warningUnparseable")} :
        \A cs \in {ColumnsWhere(NumericWithStrings)} :
            /\ Len(ws) = Len(cs)
            /\ \A k \in 1..Len(ws) :
                    /\ ws[k].params.column = cs[k].name
                    /\ ws[k].params.count = StringCells(cs[k])
                    /\ cs[k].type = "numeric"

C18_Witness ==
    /\ pc = "done" /\ error = NoError
    /\ Len(rows) = 10
    /\ columns[1].type = "numeric" /\ StringCells(columns[1]) = 1
    /\ columns[2].type = "numeric" /\ StringCells(columns[2]) = 0
    /\ Len(WarningsOfKey("warningUnparseable")) = 1

HasNumericColumn == \E i \in 1..Len(columns) : columns[i].type = "numeric"

\* C19: a returned result has one no-numeric-columns warning when none of
\* its columns is numeric and no such warning when one is; a table of two
\* or more columns none of which is numeric is returned, not refused.
C19_NoNumericColumnsIsAWarning ==
    pc = "done" =>
        /\ error = NoError =>
                Cardinality(WarningsWithKey("warningNoNumericColumns"))
                    = IF HasNumericColumn THEN 0 ELSE 1
        /\ Len(columns) >= 2 /\ ~HasNumericColumn => error = NoError

C19_Witness ==
    /\ pc = "done" /\ error = NoError
    /\ Len(rows) >= 2
    /\ Len(columns) = 2
    /\ \A i \in 1..Len(columns) :
            columns[i].type = "string" /\ columns[i].nonNullCount = Len(rows)
    /\ warnings = <<[key |-> "warningNoNumericColumns"]>>

\* The number of comment lines of the text t.
IsCommentLine(l) == trimStart(l) # <<>> /\ Head(trimStart(l)) = HASH

CommentLinesOf(t) == Len(SelectSeq(splitLines(t), IsCommentLine))

\* C20: a failure of parseCSV is a ParseError with the code NO_DATA,
\* NO_DATA_ROWS or TOO_FEW_COLUMNS.  NO_DATA has no metadata; the other two
\* carry exactly the delimiter, the decimal separator and the header
\* decision resolved before the throw and the number of comment lines.
C20_ErrorsAreTypedWithMetadata ==
    pc = "done" /\ error # NoError =>
        /\ error.name = "ParseError"
        /\ error.code \in {"NO_DATA", "NO_DATA_ROWS", "TOO_FEW_COLUMNS"}
        /\ error.code = "NO_DATA" => error.metadata = Null
        /\ error.code # "NO_DATA" =>
                /\ delimiter # "" /\ decimalSeparator # ""
                /\ error.metadata =
                        [delimiter |-> delimiter,
                         decimalSeparator |-> decimalSeparator,
                         hasHeader |-> hasHeaderDetected,
                         commentLinesSkipped |-> CommentLinesOf(text)]

C20_Witness ==
    /\ pc = "done"
    /\ error.code = "TOO_FEW_COLUMNS"
    /\ error.metadata.commentLinesSkipped = 1
    /\ error.metadata.hasHeader = FALSE
    /\ error.metadata.delimiter = SEMICOLON
    /\ error.metadata.decimalSeparator = COMMA

\* The calls remembered in history that had the input of the current one.
EarlierRunsOfSameInput ==
    {h \in history : h.text = text /\ h.overrides = overrides}

\* C21: parseCSV is deterministic and keeps no state between calls: a call
\* on the text and the overrides of an earlier call of the same process has
\* the outcome of that call, the same table or the same error, whatever
\* calls ran before or between the two; and the module state the calls
\* share, the position of each date pattern, is never moved.
C21_SameInputSameOutcome ==
    /\ lastIndex = FreshLastIndex
    /\ pc = "done" =>
        \A h \in EarlierRunsOfSameInput : h.outcome = Outcome

\* A table with a date column is returned a second time, after a call on
\* another input.
C21_Witness ==
    /\ pc = "done"
    /\ error = NoError
    /\ \E i \in 1..Len(columns) : columns[i].type = "date"
    /\ EarlierRunsOfSameInput # {}
    /\ history \ EarlierRunsOfSameInput # {}

\* The lines of t that the preprocessor looks at: those with a character
\* that is not white space.
IsNonBlank(l) == trimStart(l) # <<>>
NonBlankLinesOf(t) == SelectSeq(splitLines(t), IsNonBlank)

\* The positions in lines of the comment lines that come before every
\* line that is not a comment.
CommentsBeforeData(lines) ==
    {i \in 1..Len(lines) : \A j \in 1..i : IsCommentLine(lines[j])}

\* C22: preprocessLines sets commentHeaderLine to the last comment line
\* before the first non-comment line, null if there is none; comment lines
\* after a non-comment line are counted in commentLinesSkipped but neither
\* change commentHeaderLine nor enter dataLines.
C22_LastCommentBeforeData ==
    pc = "preprocessed" =>
        \A lines \in {NonBlankLinesOf(text)} :
        \A before \in {CommentsBeforeData(lines)} :
            /\ commentHeaderLine =
                    IF before = {} THEN Null
                    ELSE Str(lines[Cardinality(before)])
            /\ commentLinesSkipped >= Cardinality(before)
            /\ commentLinesSkipped - Cardinality(before) =
                    Cardinality({i \in 1..Len(lines) \ before :
                                    IsCommentLine(lines[i])})
            /\ \A i \in 1..Len(dataLines) : ~IsCommentLine(dataLines[i])

\* Two different comments, a data line and a later comment: the second
\* comment is the header candidate and all three are counted.
C22_Witness ==
    /\ pc = "preprocessed"
    /\ Len(NonBlankLinesOf(text)) = 4
    /\ NonBlankLinesOf(text)[1] # NonBlankLinesOf(text)[2]
    /\ commentHeaderLine = Str(NonBlankLinesOf(text)[2])
    /\ commentLinesSkipped = 3
    /\ Len(dataLines) = 1

\* C26: preprocessLines partitions the non-blank lines of the text, split
\* on CRLF, LF or CR: every one of them is either counted in
\* commentLinesSkipped or kept in dataLines, and dataLines holds the
\* non-comment lines in their order in the text.
C26_NonBlankLinesPartitioned ==
    pc = "preprocessed" =>
        /\ commentLinesSkipped + Len(dataLines) = Len(NonBlankLinesOf(text))
        /\ commentLinesSkipped = CommentLinesOf(text)
        /\ dataLines = DataLinesOf(text)

\* A text with a CRLF, a blank line, a comment and two different data
\* lines.
C26_Witness ==
    /\ pc = "preprocessed"
    /\ \E i \in 1..(Len(text) - 1) : text[i] = CR /\ text[i + 1] = LF
    /\ Len(splitLines(text)) = Len(NonBlankLinesOf(text)) + 1
    /\ commentLinesSkipped = 1
    /\ Len(dataLines) = 2
    /\ dataLines[1] # dataLines[2]

\* The four checks as the documentation states them, for a file record f.
HasCsvExtension(name) ==
    /\ Len(name) >= 4
    /\ name[Len(name) - 3] = DOT
    /\ name[Len(name) - 2] \in {"c", "C"}
    /\ name[Len(name) - 1] \in {"s", "S"}
    /\ name[Len(name)] \in {"v", "V"}

ZeroAmongFirstBytes(buffer) == \E z \in buffer.zeros : z <= 1023

FailingChecks(f) ==
    IF f \in {Null, Undefined} THEN <<"NO_FILE">>
    ELSE SelectSeq(<<"EMPTY_FILE", "INVALID_TYPE", "BINARY_FILE">>,
            LAMBDA c :
                \/ c = "EMPTY_FILE" /\ f.size = 0
                \/ c = "INVALID_TYPE"
                    /\ f.mimetype \notin {"text/csv", "text/plain",
                            "application/csv", "application/vnd.ms-excel"}
                    /\ ~HasCsvExtension(f.originalname)
                \/ c = "BINARY_FILE" /\ ZeroAmongFirstBytes(f.buffer))

\* C23: validateFile returns the code of the first failing check in the
\* order NO_FILE, EMPTY_FILE, INVALID_TYPE, BINARY_FILE, and valid = true
\* exactly when no check fails; a zero byte at offset 1024 or later never
\* causes a rejection.
C23_FirstFailingCheck ==
    pc = "validated" =>
        \A failing \in {FailingChecks(file)} :
            /\ validation.valid <=> failing = <<>>
            /\ ~validation.valid => validation.code = Head(failing)

\* A file of an accepted type whose only zero bytes are at offset 1024
\* and later is valid.
C23_Witness ==
    /\ pc = "validated"
    /\ file \notin {Null, Undefined}
    /\ file.buffer.zeros # {}
    /\ \A z \in file.buffer.zeros : z >= 1024
    /\ validation.valid

\* The counts of the character ch in the first five of lines.
SampledCounts(lines, ch) ==
    {CountChar(lines[i], ch) : i \in 1..Min(5, Len(lines))}

\* max - min of those counts.
Spread(lines, ch) ==
    MaxOf(SampledCounts(lines, ch)) - MinOf(SampledCounts(lines, ch))

\* The candidates that occur in every sampled line.
InEveryLine(lines) ==
    {ch \in {TAB, SEMICOLON, COMMA} :
        lines # <<>> /\ 0 \notin SampledCounts(lines, ch)}

NoneConsistent(lines) ==
    \A ch \in {TAB, SEMICOLON, COMMA} : ~IsConsistent(lines, ch)

C25_DelimiterDependsOnFirstFiveLines ==
    pc = "detected" =>
        \A h \in history :
            FirstLines(h.dataLines, 5) = FirstLines(dataLines, 5)
                => h.delimiter = delimiter

\* Two lists that differ in their sixth line, one that a detector reading
\* six lines would tell apart from the first five.
C25_Witness ==
    /\ pc = "detected"
    /\ \E h \in history :
        /\ Len(h.dataLines) >= 6 /\ Len(dataLines) >= 6
        /\ h.dataLines[6] # dataLines[6]
        /\ CountChar(dataLines[6], delimiter) = 0
        /\ h.delimiter = delimiter

LastStarted == started[Len(started)]

\* The state that the response to the upload u alone leaves on display.
ShowsResponseOf(u) ==
    \E response \in {ResponseOf(u.file, u.settings)} :
        IF response.status = 200
        THEN /\ parseResult # Null
             /\ parseResult.columns = response.data.columns
             /\ parseResult.metadata = response.data.metadata
             /\ lastMetadata = response.data.metadata
             /\ appError = IF NoNumericIdx(response.data.warnings) # 0
                           THEN [code |-> "NO_NUMERIC_COLUMNS",
                                 fallback |-> "No numeric columns found."]
                           ELSE Null
        ELSE /\ parseResult = Null
             /\ appError = [code |-> response.data.code,
                            fallback |-> response.data.error]
             /\ response.data.metadata # Undefined
                    => lastMetadata = response.data.metadata

ShowsNetworkError ==
    /\ parseResult = Null
    /\ appError = [code |-> "", fallback |-> "Network Error"]

C28_LastStartedUploadWins ==
    /\ (started # <<>> /\ LastStarted.overlapped /\ requests = {})
            => (ShowsResponseOf(LastStarted) \/ ShowsNetworkError)
    /\ requests # {} => isUploading

(***************************************************************************)
(* C29: whatever the user does (uploads, X changes, Y toggles, select all, *)
(* 'Plot anyway', undo), the column selected as X is not among the columns *)
(* selected as Y.                                                          *)
(***************************************************************************)
C29_XNeverAmongY ==
    \A colIndex \in ColumnIndices :
        selectedXColumn = Num(colIndex, 0)
            => ~includes(selectedYColumns, colIndex)

(***************************************************************************)
(* C30: for a data of at least one row, whatever was typed, clicked or     *)
(* dragged and however the data changed, the range used for the chart      *)
(* satisfies 1 <= clampedFrom <= clampedTo <= totalRows.                   *)
(***************************************************************************)
C30_EffectiveRangeWithinData ==
    totalRows >= 1
        => /\ 1 <= clampedFrom
           /\ clampedFrom <= clampedTo
           /\ clampedTo <= totalRows

\* The stored range is out of the data and a proper part of the rows is
\* charted.
C30_Witness ==
    /\ totalRows >= 1
    /\ rangeFrom < 1
    /\ isSubset
    /\ visibleData = clampedFrom..clampedTo
    /\ visibleData # 1..totalRows

====
